---- MODULE Spec2Model ----
(***************************************************************************)
(* Model of the mp4svg container codecs: the length-framed ASCII85 codec   *)
(* (converters/ascii85_converter.py), the comment-embedding polyglot codec *)
(* (converters/polyglot_converter.py) and the chunk-envelope codec         *)
(* (qrcode.py).                                                            *)
(*                                                                         *)
(* Text is modelled as a sequence of character codes (ord), binary data as *)
(* a sequence of byte values 0..255.  Python's 0-based offsets are kept in *)
(* the operators that model slicing and str.find.                          *)
(***************************************************************************)
EXTENDS Integers, Sequences, FiniteSets, TLC

VARIABLES
    mp4_data,    \* bytes of the payload file (mp4_path)
    encoded,     \* text handed to / produced by the ASCII85 frame codec
    decoded,     \* outcome of ASCII85SVGConverter._decode_ascii85
    svg,         \* the ascii85 container file (output_path / svg_path)
    converted,   \* outcome of ASCII85SVGConverter.convert
    extracted,   \* outcome of ASCII85SVGConverter.extract: result and output file
    boundary,       \* PolyglotSVGConverter.boundary of the converter instance
    urandom_calls,  \* number of boundary tokens drawn from os.urandom so far
    history,        \* the constructor and convert calls on polyglot converters, in order
    pdf_data,       \* bytes of the optional PDF file (empty when none is given)
    container,      \* the polyglot container file (output_path / svg_path)
    poly_extracted, \* outcome of PolyglotSVGConverter.extract
    chunk_size,     \* QRCodeSVGConverter.chunk_size of the converter instance
    envelopes,      \* the chunk envelopes (chunk_data) built by QRCodeSVGConverter.convert
    qr_converted,   \* outcome of QRCodeSVGConverter.convert
    scanned,        \* the envelopes read back from the QR symbols, in reading order
    reconstructed,  \* outcome of the reconstruction: result and output file
    qr_extracted,   \* outcome of QRCodeSVGConverter.extract
    files,              \* the directory of containers (svg_directory): file name -> file
    svg_path,           \* the svg_path argument of validate_integrity
    original,           \* the original_mp4_path argument and the file it names
    detected,           \* the tags the three format detectors return for files[svg_path]
    validated,          \* outcome of IntegrityValidator.validate_integrity
    original_directory, \* the original_directory argument of batch_validate and its files
    batch,              \* outcome of IntegrityValidator.batch_validate
    heap,          \* the list objects of the SVGValidator run: reference -> entries
    svg_validator, \* the SVGValidator instance: the lists self.errors, self.warnings refer to
    svg_calls      \* the validate_svg_file calls made on the instance, in order

a85vars == <<encoded, decoded, svg, converted, extracted>>

polyvars == <<boundary, urandom_calls, history, pdf_data, container, poly_extracted>>

qrvars == <<chunk_size, envelopes, qr_converted, scanned, reconstructed, qr_extracted>>

valvars == <<files, svg_path, original, detected, validated, original_directory, batch>>

svgvars == <<heap, svg_validator, svg_calls>>

vars == <<mp4_data, a85vars, polyvars, qrvars, valvars, svgvars>>

----------------------------------------------------------------------------
(* Bounds of the model *)

\* longest payload, in bytes
MaxLen == 5

\* longest payload given to the chunk-envelope converter, in bytes
MaxQRLen == 3

\* largest chunk_size of a chunk-envelope converter
MaxChunk == 3

\* largest number of envelopes read back before the reconstruction
MaxScans == 3

\* longest payload given to the polyglot converter, in bytes (besides the
\* 256-byte payload of all byte values)
MaxPolyLen == 3

\* most constructor and convert calls made on polyglot converters
MaxCalls == 3

\* widest line, in characters, a container is re-wrapped to
MaxWidth == 3

\* most segments a container that did not come from convert is made of
MaxSegments == 3

\* longest body of a frame that did not come from the encoder, in characters
MaxBody == 3

\* most fragments of a hand-made container document
MaxParts == 2

\* most files in a directory handed to batch_validate
MaxFiles == 2

\* longest payload of a generated container or of an original, in bytes
MaxValLen == 2

\* validate_svg_file calls made on one SVGValidator instance
MaxSvgCalls == 2

\* byte values payloads are built from: zero, a small value, a value whose
\* groups contain ':' and decimal digits, and the largest byte
ByteVals == {0, 1, 58, 255}

----------------------------------------------------------------------------
(* Python helpers *)

Min(a, b) == IF a <= b THEN a ELSE b

Max(a, b) == IF a >= b THEN a ELSE b

\* s[a:b] for 0 <= a, 0 <= b
Slice(s, a, b) == SubSeq(s, a + 1, Min(b, Len(s)))

\* s[:n], n possibly negative
SliceTo(s, n) == IF n >= 0 THEN SubSeq(s, 1, Min(n, Len(s)))
                 ELSE SubSeq(s, 1, Max(Len(s) + n, 0))

\* s[n:], n >= 0
SliceFrom(s, n) == SubSeq(s, n + 1, Len(s))

\* s.startswith(p)
StartsWith(s, p) == Len(s) >= Len(p) /\ SubSeq(s, 1, Len(p)) = p

\* s.endswith(p)
EndsWith(s, p) == Len(s) >= Len(p) /\ SubSeq(s, Len(s) - Len(p) + 1, Len(s)) = p

\* s.find(sub, start): 0-based offset of the first occurrence at or after
\* start, -1 when there is none
Find(s, sub, start) ==
    LET hits == {i \in start..(Len(s) - Len(sub)) :
                    SubSeq(s, i + 1, i + Len(sub)) = sub}
    IN IF hits = {} THEN -1 ELSE CHOOSE i \in hits : \A j \in hits : i <= j

\* ''.join(parts) for a sequence of sequences
RECURSIVE Join(_)
Join(parts) == IF parts = <<>> THEN <<>> ELSE Head(parts) \o Join(Tail(parts))

\* str(n) for n >= 0: the decimal digits of n
RECURSIVE Decimal(_)
Decimal(n) == IF n < 10 THEN <<48 + n>> ELSE Decimal(n \div 10) \o <<48 + (n % 10)>>

IsSpace(c) == c \in {9, 10, 11, 12, 13, 28, 29, 30, 31, 32}

IsDigit(c) == c >= 48 /\ c <= 57

\* s.strip()
RECURSIVE LStrip(_)
LStrip(s) == IF s # <<>> /\ IsSpace(Head(s)) THEN LStrip(Tail(s)) ELSE s

RECURSIVE RStrip(_)
RStrip(s) == IF s # <<>> /\ IsSpace(s[Len(s)]) THEN RStrip(SubSeq(s, 1, Len(s) - 1)) ELSE s

Strip(s) == RStrip(LStrip(s))

RECURSIVE DigitsValue(_)
DigitsValue(s) == IF s = <<>> THEN 0 ELSE 10 * DigitsValue(SubSeq(s, 1, Len(s) - 1)) + (s[Len(s)] - 48)

\* int(s): surrounding whitespace is ignored, an optional sign, then one or
\* more decimal digits; anything else raises ValueError
ParseInt(s) ==
    LET t == Strip(s)
        signed == t # <<>> /\ t[1] \in {43, 45}
        digits == IF signed THEN Tail(t) ELSE t
    IN IF digits # <<>> /\ \A i \in 1..Len(digits) : IsDigit(digits[i])
       THEN [ok |-> TRUE, val |-> IF signed /\ t[1] = 45 THEN 0 - DigitsValue(digits)
                                  ELSE DigitsValue(digits)]
       ELSE [ok |-> FALSE, val |-> 0]

\* Python integers are unbounded; a value is held as two 16-bit limbs,
\* value = hi * 65536 + lo with 0 <= lo < 65536 (hi carries the sign)
Limbs(hi, lo) == [hi |-> hi, lo |-> lo]

\* value * 85 + d
MulAdd85(value, d) ==
    LET low == value.lo * 85 + d
    IN Limbs(value.hi * 85 + (low \div 65536), low % 65536)

\* value // 85
Div85(value) == Limbs(value.hi \div 85, ((value.hi % 85) * 65536 + value.lo) \div 85)

\* value % 85
Mod85(value) == ((value.hi % 85) * 65536 + value.lo) % 85

\* struct.unpack('>I', chunk)[0] for a 4-byte chunk
UnpackBE(chunk) == Limbs(chunk[1] * 256 + chunk[2], chunk[3] * 256 + chunk[4])

\* 0 <= value <= 4294967295, the range struct.pack('>I', value) accepts
FitsU32(value) == value.hi >= 0 /\ value.hi <= 65535

\* struct.pack('>I', value)
PackBE(value) == << value.hi \div 256, value.hi % 256, value.lo \div 256, value.lo % 256 >>

\* outcomes of an operation: returned bytes / a return value / an exception
Bytes(b) == [kind |-> "bytes", val |-> b]

Raised(e) == [kind |-> e, val |-> <<>>]

None == [kind |-> "None", val |-> <<>>]

Str(s) == [kind |-> "str", val |-> s]

\* the result of extract(svg_path, output_mp4) and the bytes it writes to
\* output_mp4 (None when it writes nothing)
Outcome(ret, written) == [ret |-> ret, written |-> written]

\* a function's return value that carries no data: True, False, a path
Returned(r) == [kind |-> r, val |-> <<>>]

\* a container file of the file system: present with its content, or absent
File(c) == [exists |-> TRUE, content |-> c]

----------------------------------------------------------------------------
(* ASCII85SVGConverter._encode_ascii85 *)

\* the inner loop of the encoder, n iterations: chars.append(chr(33 +
\* value % 85)); value //= 85, then ''.join(reversed(chars))
RECURSIVE Base85Chars(_, _)
Base85Chars(value, n) == IF n = 0 THEN <<>>
                         ELSE Base85Chars(Div85(value), n - 1) \o <<33 + Mod85(value)>>

\* the chunk at offset i, zero padded to 4 bytes
PaddedChunk(data, i) ==
    LET chunk == Slice(data, i, i + 4)
    IN chunk \o [k \in 1..(4 - Len(chunk)) |-> 0]

\* the encoder's loop with 'z' emitted for every block of value zero
EncodeChunk_z_when_zero(data, i) ==
    LET value == UnpackBE(PaddedChunk(data, i))
    IN IF value = Limbs(0, 0) THEN <<122>> ELSE Base85Chars(value, 5)

\* one iteration of the encoder's loop: the text appended for offset i
EncodeChunk(data, i) ==
    LET value == UnpackBE(PaddedChunk(data, i))
    IN IF value = Limbs(0, 0) /\ i + 4 <= Len(data) THEN <<122>> ELSE Base85Chars(value, 5)

\* number of 4-byte blocks of the payload: len(range(0, len(data), 4))
NumBlocks(data) == (Len(data) + 3) \div 4

EncodeBody(data) == Join([k \in 1..NumBlocks(data) |-> EncodeChunk(data, 4 * (k - 1))])

\* the frame without its length prefix
_encode_ascii85_unframed(data) == <<60, 126>> \o EncodeBody(data) \o <<126, 62>>

_encode_ascii85(data) == <<60, 126>> \o Decimal(Len(data)) \o <<58>> \o EncodeBody(data) \o <<126, 62>>

----------------------------------------------------------------------------
(* ASCII85SVGConverter._decode_ascii85 *)

\* value = value * 85 + (ord(char) - 33) over the characters of chunk
RECURSIVE GroupValue(_)
GroupValue(chunk) == IF chunk = <<>> THEN Limbs(0, 0)
                     ELSE MulAdd85(GroupValue(SubSeq(chunk, 1, Len(chunk) - 1)), chunk[Len(chunk)] - 33)

\* the while loop of the decoder from offset i with the bytes decoded so
\* far: the decoded list, or struct.error when a group's value does not fit
\* an unsigned 32-bit integer
RECURSIVE DecodeLoop(_, _, _)
DecodeLoop(body, i, acc) ==
    IF i >= Len(body) THEN Bytes(acc)
    ELSE IF body[i + 1] = 122 THEN DecodeLoop(body, i + 1, acc \o <<0, 0, 0, 0>>)
    ELSE LET raw == Slice(body, i, i + 5)
             padding_chars == 5 - Len(raw)
             chunk == raw \o [k \in 1..padding_chars |-> 117]
             value == GroupValue(chunk)
         IN IF ~FitsU32(value) THEN Raised("struct.error")
            ELSE LET chunk_bytes == IF i + 5 >= Len(body) /\ padding_chars > 0
                                    THEN SubSeq(PackBE(value), 1, 4 - padding_chars)
                                    ELSE PackBE(value)
                 IN DecodeLoop(body, i + 5, acc \o chunk_bytes)

\* the text with the '<~' and '~>' delimiters removed where present
Undelimited(text) ==
    LET s1 == IF StartsWith(text, <<60, 126>>) THEN SliceFrom(text, 2) ELSE text
    IN IF EndsWith(s1, <<126, 62>>) THEN SliceTo(s1, -2) ELSE s1

\* encoded.find(':') on the undelimited text
LengthPrefixEnd(text) == Find(Undelimited(text), <<58>>, 0)

\* int(encoded[:length_prefix_end])
OriginalLength(text) == ParseInt(SliceTo(Undelimited(text), LengthPrefixEnd(text)))

\* encoded[length_prefix_end + 1:]
FrameBody(text) == SliceFrom(Undelimited(text), LengthPrefixEnd(text) + 1)

\* the decoder without the final trim to original_length
_decode_ascii85_untrimmed(text) ==
    IF ~OriginalLength(text).ok THEN Raised("ValueError")
    ELSE DecodeLoop(FrameBody(text), 0, <<>>)

_decode_ascii85(text) ==
    LET looped == DecodeLoop(FrameBody(text), 0, <<>>)
    IN IF ~OriginalLength(text).ok THEN Raised("ValueError")
       ELSE IF looped.kind # "bytes" THEN looped
       ELSE Bytes(SliceTo(looped.val, OriginalLength(text).val))

----------------------------------------------------------------------------
(* base64.b64encode / base64.b64decode *)

\* the character of a 6-bit value in the standard alphabet
B64Char(v) == IF v < 26 THEN 65 + v
              ELSE IF v < 52 THEN 97 + (v - 26)
              ELSE IF v < 62 THEN 48 + (v - 52)
              ELSE IF v = 62 THEN 43 ELSE 47

\* the 6-bit value of a character, 64 for a character outside the alphabet
B64Val(c) == IF c >= 65 /\ c <= 90 THEN c - 65
             ELSE IF c >= 97 /\ c <= 122 THEN c - 97 + 26
             ELSE IF c >= 48 /\ c <= 57 THEN c - 48 + 52
             ELSE IF c = 43 THEN 62
             ELSE IF c = 47 THEN 63 ELSE 64

\* the 4 characters of one group of 1..3 bytes, '=' padded
B64Group(g) ==
    LET b1 == g[1]
        b2 == IF Len(g) >= 2 THEN g[2] ELSE 0
        b3 == IF Len(g) >= 3 THEN g[3] ELSE 0
    IN << B64Char(b1 \div 4),
          B64Char((b1 % 4) * 16 + (b2 \div 16)),
          IF Len(g) >= 2 THEN B64Char((b2 % 16) * 4 + (b3 \div 64)) ELSE 61,
          IF Len(g) >= 3 THEN B64Char(b3 % 64) ELSE 61 >>

\* base64.b64encode(data).decode('ascii')
B64Encode(data) ==
    [p \in 1..(4 * ((Len(data) + 2) \div 3)) |->
        B64Group(Slice(data, 3 * ((p - 1) \div 4), 3 * ((p - 1) \div 4) + 3))[((p - 1) % 4) + 1]]

\* the bytes a run of 6-bit data characters holds: 3 per complete quad,
\* and 1 or 2 for a last quad of 2 or 3 characters
QuadBytes(d) ==
    LET n == 3 * (Len(d) \div 4) + (IF Len(d) % 4 >= 2 THEN (Len(d) % 4) - 1 ELSE 0)
    IN [k \in 1..n |->
          LET q == 4 * ((k - 1) \div 3)
              v1 == B64Val(d[q + 1])
              v2 == B64Val(d[q + 2])
              v3 == IF (k - 1) % 3 >= 1 THEN B64Val(d[q + 3]) ELSE 0
              v4 == IF (k - 1) % 3 = 2 THEN B64Val(d[q + 4]) ELSE 0
          IN IF (k - 1) % 3 = 0 THEN v1 * 4 + (v2 \div 16)
             ELSE IF (k - 1) % 3 = 1 THEN (v2 % 16) * 16 + (v3 \div 4)
             ELSE (v3 % 4) * 64 + v4]

\* binascii.a2b_base64 in its default (non-strict) mode on the input
\* without the characters it skips (those outside the alphabet other than
\* '='): with quad_pos the number of data characters seen modulo 4 and pads
\* the number of '=' seen since the last data character, the parse ends at
\* the first '=' where quad_pos >= 2 and quad_pos + pads >= 4, and the rest
\* of the input is ignored; input that ends inside a quad raises
\* binascii.Error
A2bBase64(s) ==
    LET IsData(j) == s[j] # 61
        DataBefore(j) == Cardinality({i \in 1..(j - 1) : IsData(i)})
        PadsAt(j) == Cardinality({i \in 1..j : \A m \in i..j : ~IsData(m)})
        stops == {j \in 1..Len(s) : /\ ~IsData(j)
                                    /\ DataBefore(j) % 4 >= 2
                                    /\ (DataBefore(j) % 4) + PadsAt(j) >= 4}
        stop == IF stops = {} THEN Len(s) + 1
                ELSE CHOOSE j \in stops : \A m \in stops : j <= m
        data == SelectSeq(SubSeq(s, 1, stop - 1), LAMBDA c : c # 61)
    IN IF stops = {} /\ Len(data) % 4 # 0 THEN Raised("binascii.Error")
       ELSE Bytes(QuadBytes(data))

\* base64.b64decode(s)
B64Decode(s) == A2bBase64(SelectSeq(s, LAMBDA c : c = 61 \/ B64Val(c) < 64))

----------------------------------------------------------------------------
(* PolyglotSVGConverter *)

\* width of the lines the base64 stream is wrapped into
LineWidth == 80

\* number of hex digits of hashlib.md5(...).hexdigest()
HexDigits == 32

\* the digests os.urandom can lead to: all '0' and all 'a'
Tokens == {[k \in 1..HexDigits |-> h] : h \in {48, 97}}

\* "POLYGLOT_BOUNDARY_"
BoundaryPrefix == <<80, 79, 76, 89, 71, 76, 79, 84, 95, 66, 79, 85, 78, 68, 65, 82, 89, 95>>

\* the boundary field: its text, and which draw from os.urandom produced
\* it (0: no converter constructed yet)
Boundary(text, gen) == [text |-> text, gen |-> gen]

NoBoundary == Boundary(<<>>, 0)

\* a text file: present with its content, or absent
Text(c) == [exists |-> TRUE, content |-> c]

NoText == [exists |-> FALSE, content |-> <<>>]

\* the lines [encoded[i:i + width] for i in range(0, len(encoded), width)]
\* joined with '\n'
WrapLines(text, width) ==
    LET lines == (Len(text) + width - 1) \div width
        total == IF text = <<>> THEN 0 ELSE Len(text) + lines - 1
    IN [p \in 1..total |-> IF p % (width + 1) = 0 THEN 10
                           ELSE text[p - (p \div (width + 1))]]

\* the section text at a given line width
EncodeAtWidth(data, width) == WrapLines(B64Encode(data), width)

_encode_for_svg_comment(data) == EncodeAtWidth(data, LineWidth)

\* ''.join(encoded_data.split())
RemoveWhitespace(text) == SelectSeq(text, LAMBDA c : ~IsSpace(c))

_decode_from_svg_comment(encoded_data) == B64Decode(RemoveWhitespace(encoded_data))

\* "<!--MP4_DATA\n"
StartMarker == <<60, 33, 45, 45, 77, 80, 52, 95, 68, 65, 84, 65, 10>>

\* "\nMP4_DATA-->"
EndMarker == <<10, 77, 80, 52, 95, 68, 65, 84, 65, 45, 45, 62>>

\* the document _create_svg_template returns, without its styling and text
\* elements: the XML declaration, the root element and its two comments
SvgTemplate ==
    <<60, 63, 120, 109, 108, 32, 118, 101, 114, 115, 105, 111, 110, 61, 34, 49, 46, 48, 34, 32, 101,
      110, 99, 111, 100, 105, 110, 103, 61, 34, 85, 84, 70, 45, 56, 34, 63, 62, 10, 60, 115, 118,
      103, 32, 120, 109, 108, 110, 115, 61, 34, 104, 116, 116, 112, 58, 47, 47, 119, 119, 119, 46,
      119, 51, 46, 111, 114, 103, 47, 50, 48, 48, 48, 47, 115, 118, 103, 34, 62, 10, 32, 32, 60,
      33, 45, 45, 32, 84, 104, 117, 109, 98, 110, 97, 105, 108, 32, 112, 114, 101, 118, 105, 101,
      119, 32, 45, 45, 62, 10, 32, 32, 60, 33, 45, 45, 32, 73, 110, 115, 116, 114, 117, 99, 116,
      105, 111, 110, 115, 32, 45, 45, 62, 10, 60, 47, 115, 118, 103, 62>>

\* the trailing summary comment between its two boundary lines (lengths
\* below 1000 have no thousands separator)
SummaryText(mp4, pdf) ==
    <<10, 83, 117, 109, 109, 97, 114, 121, 58, 32, 83, 86, 71, 32, 80, 111, 108, 121, 103, 108, 111,
      116, 32, 67, 111, 110, 116, 97, 105, 110, 101, 114, 10, 45, 32, 79, 114, 105, 103, 105, 110,
      97, 108, 32, 77, 80, 52, 58, 32>>
    \o Decimal(Len(mp4))
    \o <<32, 98, 121, 116, 101, 115, 10, 45, 32, 83, 86, 71, 32, 111, 118, 101, 114, 104, 101, 97, 100,
         58, 32, 126, 48, 37, 32, 40, 99, 111, 109, 109, 101, 110, 116, 115, 32, 105, 103, 110, 111,
         114, 101, 100, 41, 10>>
    \o (IF pdf # <<>>
        THEN <<45, 32, 80, 68, 70, 32, 105, 110, 99, 108, 117, 100, 101, 100, 58, 32>>
             \o Decimal(Len(pdf)) \o <<32, 98, 121, 116, 101, 115>>
        ELSE <<>>)
    \o <<10, 45, 32, 84, 111, 116, 97, 108, 32, 101, 109, 98, 101, 100, 100, 101, 100, 58, 32>>
    \o Decimal(Len(mp4) + Len(pdf))
    \o <<32, 98, 121, 116, 101, 115, 10>>

\* polyglot_content as convert assembles it from the two encoded sections
PolyglotContent(b, mp4, pdf, mp4_encoded, pdf_encoded) ==
    <<60, 33, 45, 45>> \o b \o <<10>>
    \o StartMarker \o mp4_encoded \o EndMarker
    \o (IF pdf # <<>>
        THEN <<10, 60, 33, 45, 45, 80, 68, 70, 95, 68, 65, 84, 65, 10>> \o pdf_encoded
             \o <<10, 80, 68, 70, 95, 68, 65, 84, 65, 45, 45, 62>>
        ELSE <<>>)
    \o <<10>> \o b \o <<45, 45, 62, 10, 10>>
    \o SvgTemplate
    \o <<10, 10, 60, 33, 45, 45>> \o b \o SummaryText(mp4, pdf) \o b \o <<45, 45, 62>>

\* extract with the end marker searched from the beginning of the content
ExtractPolyglot_from_zero(file) ==
    IF ~file.exists THEN Outcome("DecodingError", None)
    ELSE LET content == file.content
             start_idx == Find(content, StartMarker, 0)
             end_idx == Find(content, EndMarker, 0)
             decoded_data == _decode_from_svg_comment(
                                 Slice(content, start_idx + Len(StartMarker), end_idx))
         IN IF start_idx = -1 THEN Outcome("False", None)
            ELSE IF end_idx = -1 THEN Outcome("False", None)
            ELSE IF decoded_data.kind = "bytes" THEN Outcome("True", decoded_data)
            ELSE Outcome("DecodingError", None)

\* extract with the start marker left in the decoded region
ExtractPolyglot_keeps_marker(file) ==
    IF ~file.exists THEN Outcome("DecodingError", None)
    ELSE LET content == file.content
             start_idx == Find(content, StartMarker, 0)
             end_idx == Find(content, EndMarker, start_idx)
             decoded_data == _decode_from_svg_comment(Slice(content, start_idx, end_idx))
         IN IF start_idx = -1 THEN Outcome("False", None)
            ELSE IF end_idx = -1 THEN Outcome("False", None)
            ELSE IF decoded_data.kind = "bytes" THEN Outcome("True", decoded_data)
            ELSE Outcome("DecodingError", None)

\* extract(svg_path, output_mp4): the result and the bytes written
ExtractPolyglot(file) ==
    IF ~file.exists THEN Outcome("DecodingError", None)
    ELSE LET content == file.content
             start_idx == Find(content, StartMarker, 0)
             end_idx == Find(content, EndMarker, start_idx)
             decoded_data == _decode_from_svg_comment(
                                 Slice(content, start_idx + Len(StartMarker), end_idx))
         IN IF start_idx = -1 THEN Outcome("False", None)
            ELSE IF end_idx = -1 THEN Outcome("False", None)
            ELSE IF decoded_data.kind = "bytes" THEN Outcome("True", decoded_data)
            ELSE Outcome("DecodingError", None)

----------------------------------------------------------------------------
(* The payloads the caller supplies *)

RECURSIVE SeqsUpTo(_, _)
SeqsUpTo(S, n) == IF n = 0 THEN {<<>>}
                  ELSE LET shorter == SeqsUpTo(S, n - 1)
                       IN shorter \cup {Append(s, x) : s \in {t \in shorter : Len(t) = n - 1}, x \in S}

Payloads == SeqsUpTo(ByteVals, MaxLen)

----------------------------------------------------------------------------
(* ASCII85SVGConverter.convert / extract *)

Spaces(n) == [k \in 1..n |-> 32]

\* the text of the <video:data> element written by _generate_svg: the
\* CDATA section holding encoded_b64 on a line of its own, indented
VideoDataText(encoded_b64) ==
    <<10>> \o Spaces(12) \o <<10>> \o encoded_b64 \o <<10>> \o Spaces(12) \o <<10>> \o Spaces(8)

\* the container as the XML parser sees it: whether the document has a
\* <video:data> element, and that element's text
Container(has_video_data, text) == [has_video_data |-> has_video_data, text |-> text]

NoFile == [exists |-> FALSE, content |-> Container(FALSE, <<>>)]

\* bytes.decode('ascii'): UnicodeDecodeError on a byte above 127
DecodeAsciiText(b) == IF \E k \in 1..Len(b) : b[k] > 127 THEN Raised("UnicodeDecodeError") ELSE Str(b)

ExtractAscii85(file) ==
    IF ~file.exists THEN Outcome("DecodingError", None)
    ELSE IF ~file.content.has_video_data THEN Outcome("False", None)
    ELSE IF file.content.text = <<>> THEN Outcome("DecodingError", None)
    ELSE LET raw == B64Decode(Strip(file.content.text))
             decoded_b64 == IF raw.kind = "bytes" THEN DecodeAsciiText(raw.val) ELSE raw
             result == IF decoded_b64.kind = "str" THEN _decode_ascii85(decoded_b64.val) ELSE decoded_b64
         IN IF result.kind = "bytes" THEN Outcome("True", result)
            ELSE Outcome("DecodingError", None)

----------------------------------------------------------------------------
(* Files, reports and the idle states of the components *)

\* the document as xml.etree / lxml parses it: whether it parses at all,
\* its first <video:data> element (see Container), and whether some
\* un-namespaced <path> has a d attribute and some <set> an attributeName
Tree(well_formed, video_data, has_path_d, has_set_attribute) ==
    [well_formed |-> well_formed, video_data |-> video_data,
     has_path_d |-> has_path_d, has_set_attribute |-> has_set_attribute]

\* a document the XML parser rejects
XmlError == Tree(FALSE, Container(FALSE, <<>>), FALSE, FALSE)

\* a file of the file system: whether it exists, whether it can be opened
\* and read, its content (text or bytes) and the document an XML parser
\* makes of it
FileState(exists, readable, content, tree) ==
    [exists |-> exists, readable |-> readable, content |-> content, tree |-> tree]

Absent == FileState(FALSE, FALSE, <<>>, XmlError)

\* a readable container with its text and parsed document
SvgFile(content, tree) == FileState(TRUE, TRUE, content, tree)

\* a readable binary file
DataFile(bytes) == FileState(TRUE, TRUE, bytes, XmlError)

\* a path that exists and cannot be read as a file
Unreadable == FileState(TRUE, FALSE, <<>>, XmlError)

\* the original_mp4_path argument: whether a path is given, and the file
\* at that path
Original(supplied, file) == [supplied |-> supplied, file |-> file]

NoOriginal == Original(FALSE, Absent)

\* an entry of a report's errors or warnings list: the fixed text of the
\* message, the exception it quotes and the sizes it quotes
Msg(text, exc, sizes) == [text |-> text, exc |-> exc, sizes |-> sizes]

\* the result dictionary validate_integrity starts from
InitialResult ==
    [format_detected |-> "None",
     extraction_successful |-> FALSE,
     data_integrity_valid |-> FALSE,
     size_match |-> FALSE,
     checksum_match |-> FALSE,
     extracted_size |-> 0,
     original_size |-> 0,
     extracted_checksum |-> "None",
     original_checksum |-> "None",
     errors |-> <<>>,
     warnings |-> <<>>]

\* what the three format detectors answered for the container: the tag
\* each returned ("not run" before its call), and what
\* HybridSVGConverter.extract returned and wrote after detecting
NoDetection ==
    [integrity |-> "not run", svg_validator |-> "not run", hybrid |-> "not run",
     hybrid_extracted |-> Outcome("None", None)]

\* a call of validate_integrity: the container it was given, what it
\* raised and the report it returned
NotValidated == [called |-> FALSE, file |-> Absent, raised |-> "None", report |-> InitialResult]

\* the original_directory argument: whether it is given, and the files of
\* that directory by name
NoDirectory == [supplied |-> FALSE, entries |-> <<>>]

\* the results dictionary batch_validate starts from, for the listing
\* svg_files
InitialBatch(svg_files) ==
    [svg_files |-> svg_files,
     total_files |-> Len(svg_files),
     files_processed |-> 0,
     files_valid |-> 0,
     files_with_errors |-> 0,
     individual_results |-> <<>>,
     formats_detected |-> [fmt \in {"polyglot", "ascii85", "qrcode", "vector"} |-> 0],
     recommendations |-> <<>>]

\* a call of batch_validate: the directory as it was at the call, and the
\* results returned
NoBatch == [called |-> FALSE, before |-> <<>>, results |-> InitialBatch(<<>>)]

\* the validators have not been used
ValIdle ==
    /\ files = <<>>
    /\ svg_path = <<>>
    /\ original = NoOriginal
    /\ detected = NoDetection
    /\ validated = NotValidated
    /\ original_directory = NoDirectory
    /\ batch = NoBatch

\* no SVGValidator has been constructed
SvgIdle ==
    /\ heap = <<>>
    /\ svg_validator = [errors |-> 0, warnings |-> 0]
    /\ svg_calls = <<>>

\* the chunk-envelope converter has not been used
QRIdle ==
    /\ chunk_size = 1024
    /\ envelopes = <<>>
    /\ qr_converted = None
    /\ scanned = <<>>
    /\ reconstructed = Outcome("None", None)
    /\ qr_extracted = None

\* no polyglot converter has been constructed or used
PolyIdle ==
    /\ boundary = NoBoundary
    /\ urandom_calls = 0
    /\ history = <<>>
    /\ pdf_data = <<>>
    /\ container = NoText
    /\ poly_extracted = Outcome("None", None)

----------------------------------------------------------------------------
(* ASCII85 codec on payloads: encode and decode, convert and extract *)

InitA85 ==
    /\ mp4_data \in Payloads
    /\ encoded = None
    /\ decoded = None
    /\ svg = NoFile
    /\ converted = None
    /\ extracted = Outcome("None", None)
    /\ PolyIdle
    /\ QRIdle
    /\ ValIdle
    /\ SvgIdle

\* a caller applies _encode_ascii85 to the payload
EncodeAscii85 ==
    /\ encoded = None
    /\ encoded' = Str(_encode_ascii85(mp4_data))
    /\ UNCHANGED <<mp4_data, decoded, svg, converted, extracted, polyvars, qrvars, valvars, svgvars>>

\* a caller applies _decode_ascii85 to the frame it holds
DecodeAscii85 ==
    /\ encoded # None
    /\ decoded = None
    /\ decoded' = _decode_ascii85(encoded.val)
    /\ UNCHANGED <<mp4_data, encoded, svg, converted, extracted, polyvars, qrvars, valvars, svgvars>>

\* convert(mp4_path, output_path) on a payload file the video library
\* accepts: the container is written, then the overhead report divides by
\* len(mp4_data)
ConvertAscii85 ==
    /\ converted = None
    /\ svg' = File(Container(TRUE,
                   VideoDataText(B64Encode(_encode_ascii85(mp4_data)))))
    /\ converted' = IF Len(mp4_data) = 0 THEN Raised("EncodingError") ELSE Returned("output_path")
    /\ UNCHANGED <<mp4_data, encoded, decoded, extracted, polyvars, qrvars, valvars, svgvars>>

\* extract(svg_path, output_mp4)
ExtractAscii85Action ==
    /\ extracted.ret = "None"
    /\ extracted' = ExtractAscii85(svg)
    /\ UNCHANGED <<mp4_data, encoded, decoded, svg, converted, polyvars, qrvars, valvars, svgvars>>

NextA85 == EncodeAscii85 \/ DecodeAscii85 \/ ConvertAscii85 \/ ExtractAscii85Action

SpecA85 == InitA85 /\ [][NextA85]_vars

----------------------------------------------------------------------------
(* ASCII85 decoder on frames that did not come from the encoder *)

\* characters of a foreign body: the digits '!' and 'u', the shorthand 'z',
\* and 'v' and ' ' just outside the digit range
BodyChars == {33, 117, 122, 118, 32}

\* length prefixes: "", "0:", "1:", "4:", "9:", "x:", ":", "5", "-1:"
Prefixes == {<<>>, <<48, 58>>, <<49, 58>>, <<52, 58>>, <<57, 58>>, <<120, 58>>,
             <<58>>, <<53>>, <<45, 49, 58>>}

FrameParts == [open : BOOLEAN, prefix : Prefixes, body : SeqsUpTo(BodyChars, MaxBody),
               close : BOOLEAN]

FrameOf(p) == (IF p.open THEN <<60, 126>> ELSE <<>>) \o p.prefix \o p.body
              \o (IF p.close THEN <<126, 62>> ELSE <<>>)

\* the caller holds an arbitrary frame, and a container whose <video:data>
\* element (if any) carries that frame
InitFrames ==
    /\ mp4_data = <<>>
    /\ \E p \in FrameParts, has_video_data \in BOOLEAN :
          /\ encoded = Str(FrameOf(p))
          /\ svg = File(Container(has_video_data,
                                  IF has_video_data THEN VideoDataText(B64Encode(FrameOf(p))) ELSE <<>>))
    /\ decoded = None
    /\ converted = None
    /\ extracted = Outcome("None", None)
    /\ PolyIdle
    /\ QRIdle
    /\ ValIdle
    /\ SvgIdle

NextFrames == DecodeAscii85 \/ ExtractAscii85Action

SpecFrames == InitFrames /\ [][NextFrames]_vars

----------------------------------------------------------------------------
(* PolyglotSVGConverter: construction, convert and extract *)

\* no ASCII85 converter has been used
A85Idle ==
    /\ encoded = None
    /\ decoded = None
    /\ svg = NoFile
    /\ converted = None
    /\ extracted = Outcome("None", None)

\* a call recorded in the history: __init__ or convert, with the boundary
\* the converter held when the call returned
Call(op, b) == [op |-> op, gen |-> b.gen, text |-> b.text]

\* the optional second payload: none, or a two-byte PDF
PdfPayloads == {<<>>, <<37, 80>>}

\* the state after PolyglotSVGConverter() for payload files drawn from
\* the given set
InitConverter(payloads) ==
    /\ mp4_data \in payloads
    /\ pdf_data \in PdfPayloads
    /\ \E tok \in Tokens :
          /\ boundary = Boundary(BoundaryPrefix \o tok, 1)
          /\ history = <<Call("init", Boundary(BoundaryPrefix \o tok, 1))>>
    /\ urandom_calls = 1
    /\ container = NoText
    /\ poly_extracted = Outcome("None", None)
    /\ A85Idle
    /\ QRIdle
    /\ ValIdle
    /\ SvgIdle

\* bytes([0, 1, ..., 255])
AllBytes == [k \in 1..256 |-> k - 1]

InitPoly == InitConverter(SeqsUpTo(ByteVals, MaxPolyLen) \cup {AllBytes})

\* PolyglotSVGConverter(): __init__ draws a token and stores the boundary
NewPolyglotConverter ==
    /\ Len(history) < MaxCalls
    /\ \E tok \in Tokens :
          LET b == Boundary(BoundaryPrefix \o tok, urandom_calls + 1)
          IN /\ boundary' = b
             /\ history' = Append(history, Call("init", b))
    /\ urandom_calls' = urandom_calls + 1
    /\ UNCHANGED <<mp4_data, pdf_data, container, poly_extracted, a85vars, qrvars, valvars, svgvars>>

\* convert that draws a new token for every call
ConvertPolyglot_fresh_token ==
    /\ Len(history) < MaxCalls
    /\ \E tok \in Tokens :
          LET b == Boundary(BoundaryPrefix \o tok, urandom_calls + 1)
          IN /\ boundary' = b
             /\ history' = Append(history, Call("convert", b))
             /\ container' = Text(PolyglotContent(b.text, mp4_data, pdf_data,
                                     _encode_for_svg_comment(mp4_data),
                                     _encode_for_svg_comment(pdf_data)))
    /\ urandom_calls' = urandom_calls + 1
    /\ UNCHANGED <<mp4_data, pdf_data, poly_extracted, a85vars, qrvars, valvars, svgvars>>

\* convert(mp4_path, output_path, pdf_path) on a payload file the video
\* library accepts
ConvertPolyglot ==
    /\ Len(history) < MaxCalls
    /\ container' = Text(PolyglotContent(boundary.text, mp4_data, pdf_data,
                            _encode_for_svg_comment(mp4_data),
                            _encode_for_svg_comment(pdf_data)))
    /\ history' = Append(history, Call("convert", boundary))
    /\ UNCHANGED <<mp4_data, pdf_data, boundary, urandom_calls, poly_extracted, a85vars, qrvars, valvars, svgvars>>

\* the lines of the written sections are re-wrapped to another width
\* outside the converter
RewrapContainer ==
    /\ container.exists
    /\ \E width \in 1..MaxWidth :
          container' = Text(PolyglotContent(boundary.text, mp4_data, pdf_data,
                               EncodeAtWidth(mp4_data, width),
                               EncodeAtWidth(pdf_data, width)))
    /\ UNCHANGED <<mp4_data, pdf_data, boundary, urandom_calls, history, poly_extracted, a85vars, qrvars, valvars, svgvars>>

\* extract(svg_path, output_mp4)
ExtractPolyglotAction ==
    /\ poly_extracted.ret = "None"
    /\ poly_extracted' = ExtractPolyglot(container)
    /\ UNCHANGED <<mp4_data, pdf_data, boundary, urandom_calls, history, container, a85vars, qrvars, valvars, svgvars>>

NextPoly == ConvertPolyglot \/ RewrapContainer \/ ExtractPolyglotAction

SpecPoly == InitPoly /\ [][NextPoly]_vars

\* several converters and several convert calls on small payloads
InitBoundary == InitConverter(SeqsUpTo(ByteVals, 1))

NextBoundary == NewPolyglotConverter \/ ConvertPolyglot \/ ExtractPolyglotAction

SpecBoundary == InitBoundary /\ [][NextBoundary]_vars

----------------------------------------------------------------------------
(* PolyglotSVGConverter.extract on containers that did not come from convert *)

\* pieces of a foreign container: the two markers, a base64 quad ("QUJD"),
\* a lone base64 character ("A"), and "MP4_DATA-->" without its newline
Segments == {StartMarker, EndMarker, <<81, 85, 74, 68>>, <<65>>,
             <<77, 80, 52, 95, 68, 65, 84, 65, 45, 45, 62>>}

ForeignTexts == {Join(segs) : segs \in SeqsUpTo(Segments, MaxSegments)}

InitPolyText ==
    /\ mp4_data = <<>>
    /\ pdf_data = <<>>
    /\ \E tok \in Tokens :
          /\ boundary = Boundary(BoundaryPrefix \o tok, 1)
          /\ history = <<Call("init", Boundary(BoundaryPrefix \o tok, 1))>>
    /\ urandom_calls = 1
    /\ container \in {Text(c) : c \in ForeignTexts}
    /\ poly_extracted = Outcome("None", None)
    /\ A85Idle
    /\ QRIdle
    /\ ValIdle
    /\ SvgIdle

NextPolyText == ExtractPolyglotAction

SpecPolyText == InitPolyText /\ [][NextPolyText]_vars

----------------------------------------------------------------------------
(* Format detection: IntegrityValidator._detect_format,                    *)
(* SVGValidator._detect_format and the detection of                        *)
(* HybridSVGConverter.extract                                              *)

\* str.lower() on ASCII text
Lower(s) == [k \in 1..Len(s) |-> IF s[k] \in 65..90 THEN s[k] + 32 ELSE s[k]]

\* sub in content
Contains(content, sub) == Find(content, sub, 0) # -1

\* the substrings the detectors look for besides BoundaryPrefix
Signatures ==
    [\* 'encoding="ascii85"'
     ascii85 |->
         <<101, 110, 99, 111, 100, 105, 110, 103, 61, 34, 97, 115, 99, 105, 105, 56, 53, 34>>,
     \* 'qr-frame-'
     qr_frame |-> <<113, 114, 45, 102, 114, 97, 109, 101, 45>>,
     \* '<path d='
     path_d |-> <<60, 112, 97, 116, 104, 32, 100, 61>>,
     \* '<set attributeName='
     set_attribute |->
         <<60, 115, 101, 116, 32, 97, 116, 116, 114, 105, 98, 117, 116, 101, 78, 97, 109, 101,
           61>>]

\* the words 'polyglot', 'ascii85', 'qrcode', 'vector'
FormatWords ==
    {<<112, 111, 108, 121, 103, 108, 111, 116>>,
     <<97, 115, 99, 105, 105, 56, 53>>,
     <<113, 114, 99, 111, 100, 101>>,
     <<118, 101, 99, 116, 111, 114>>}

\* _detect_format looking for the ascii85 marker before the boundary
IntegrityDetectFormat_ascii85_first(content) ==
    IF Contains(content, Signatures.ascii85) THEN "ascii85"
    ELSE IF Contains(content, BoundaryPrefix) THEN "polyglot"
    ELSE IF Contains(content, Signatures.qr_frame) THEN "qrcode"
    ELSE IF Contains(content, Signatures.path_d) /\ Contains(content, Signatures.set_attribute) THEN "vector"
    ELSE "None"

\* IntegrityValidator._detect_format on the text read from svg_path
IntegrityDetectFormat(content) ==
    IF Contains(content, BoundaryPrefix) THEN "polyglot"
    ELSE IF Contains(content, Signatures.ascii85) THEN "ascii85"
    ELSE IF Contains(content, Signatures.qr_frame) THEN "qrcode"
    ELSE IF Contains(content, Signatures.path_d) /\ Contains(content, Signatures.set_attribute) THEN "vector"
    ELSE "None"

\* _detect_format looking for the format words before the signatures
SvgValidatorDetectFormat_words_first(content, root) ==
    IF \E fmt \in FormatWords : Contains(content, fmt) THEN "hybrid"
    ELSE IF Contains(content, BoundaryPrefix) THEN "polyglot"
    ELSE IF Contains(content, Signatures.ascii85) THEN "ascii85"
    ELSE IF Contains(content, Signatures.qr_frame) THEN "qrcode"
    ELSE IF root.has_path_d /\ root.has_set_attribute THEN "vector"
    ELSE "None"

\* SVGValidator._detect_format(content, root)
SvgValidatorDetectFormat(content, root) ==
    IF Contains(content, BoundaryPrefix) THEN "polyglot"
    ELSE IF Contains(content, Signatures.ascii85) THEN "ascii85"
    ELSE IF Contains(content, Signatures.qr_frame) THEN "qrcode"
    ELSE IF root.has_path_d /\ root.has_set_attribute THEN "vector"
    ELSE IF \E fmt \in FormatWords : Contains(content, fmt) THEN "hybrid"
    ELSE "None"

\* the branch HybridSVGConverter.extract takes on the text read from
\* svg_path: the converter it delegates to, or none
HybridDetectFormat(content) ==
    IF Contains(content, BoundaryPrefix) THEN "polyglot"
    ELSE IF Contains(content, Signatures.ascii85) THEN "ascii85"
    ELSE IF Contains(content, Signatures.qr_frame) THEN "qrcode"
    ELSE IF Contains(content, Signatures.path_d) /\ Contains(content, Signatures.set_attribute) THEN "vector"
    ELSE "None"

----------------------------------------------------------------------------
(* Properties of the ASCII85 codec *)

\* C1: decoding the frame the encoder produced for a payload gives back
\* exactly the payload, and extracting from a container that convert wrote
\* succeeds and writes exactly the payload
C1_RoundTrip ==
    /\ [](decoded # None => decoded = Bytes(mp4_data))
    /\ [][(svg.exists /\ extracted' # extracted)
              => extracted' = Outcome("True", Bytes(mp4_data))]_vars

\* C1 witness: a 5-byte payload ending in a zero byte after a 4-byte block
\* has been encoded and decoded, and converted and extracted
C1_Witness ==
    /\ Len(mp4_data) = 5 /\ mp4_data[5] = 0
    /\ decoded = Bytes(mp4_data)
    /\ converted # None
    /\ extracted.ret = "True"

\* the body consists of one piece per block: 'z' or five characters in
\* [33, 117]
RECURSIVE BodyOfBlocks(_, _)
BodyOfBlocks(body, n) ==
    IF n = 0 THEN body = <<>>
    ELSE IF body # <<>> /\ body[1] = 122 THEN BodyOfBlocks(Tail(body), n - 1)
    ELSE /\ Len(body) >= 5
         /\ \A k \in 1..5 : body[k] >= 33 /\ body[k] <= 117
         /\ BodyOfBlocks(SliceFrom(body, 5), n - 1)

\* C5: the frame is '<~', the decimal payload length, ':', a body holding
\* per 4-byte block either 'z' or one 5-character group of characters in
\* [33, 117], and '~>'
C5_FrameFormat ==
    encoded # None =>
        LET head == <<60, 126>> \o Decimal(Len(mp4_data)) \o <<58>>
            text == encoded.val
        IN /\ StartsWith(text, head)
           /\ EndsWith(text, <<126, 62>>)
           /\ Len(text) >= Len(head) + 2
           /\ BodyOfBlocks(Slice(text, Len(head), Len(text) - 2), (Len(mp4_data) + 3) \div 4)

\* C5 witness: the frame of a payload with an all-zero block followed by a
\* padded block has been produced
C5_Witness ==
    /\ encoded # None
    /\ mp4_data = <<0, 0, 0, 0, 1>>

\* block k of the payload is a complete 4-byte block of zero bytes
ZeroBlock(data, k) == 4 * k <= Len(data) /\ \A j \in (4 * k - 3)..(4 * k) : data[j] = 0

\* the offset in the body at which the text of block k starts when exactly
\* the complete zero blocks take one character and the others five
BlockOffset(data, k) == 5 * (k - 1) - 4 * Cardinality({j \in 1..(k - 1) : ZeroBlock(data, j)})

\* C20: the frame's body holds 'z' for a block exactly when the block is a
\* complete 4-byte block of zero bytes; every other block, a zero-padded
\* final block of zero bytes included, takes five characters
C20_ZShorthand ==
    encoded # None =>
        LET head == <<60, 126>> \o Decimal(Len(mp4_data)) \o <<58>>
            body == Slice(encoded.val, Len(head), Len(encoded.val) - 2)
            n == (Len(mp4_data) + 3) \div 4
        IN /\ Len(body) = BlockOffset(mp4_data, n + 1)
           /\ \A k \in 1..n :
                 (body[BlockOffset(mp4_data, k) + 1] = 122) <=> ZeroBlock(mp4_data, k)

\* C20 witness: the frame of five zero bytes, a complete zero block
\* followed by a padded zero block, has been produced
C20_Witness ==
    /\ encoded # None
    /\ mp4_data = <<0, 0, 0, 0, 0>>
    /\ Len(encoded.val) = 12

\* C3 (the claim as stated): whenever the decoder returns bytes for a frame
\* whose length prefix is N, it returns exactly N bytes
C3_ExactLength ==
    decoded.kind = "bytes" => Len(decoded.val) = OriginalLength(encoded.val).val

\* the frame lacks a delimiter, lacks a numeric length prefix with its ':'
\* separator, or has a body character other than 'z' outside [33, 117]
Malformed(text) ==
    \/ ~StartsWith(text, <<60, 126>>)
    \/ ~EndsWith(text, <<126, 62>>)
    \/ LengthPrefixEnd(text) = -1
    \/ LET prefix == SliceTo(Undelimited(text), LengthPrefixEnd(text))
       IN prefix = <<>> \/ \E k \in 1..Len(prefix) : ~IsDigit(prefix[k])
    \/ \E k \in 1..Len(FrameBody(text)) :
           LET c == FrameBody(text)[k] IN c # 122 /\ (c < 33 \/ c > 117)

\* C4 (the claim as stated): a malformed frame is never decoded to bytes,
\* and extraction from a container carrying it fails with DecodingError
C4_RejectsMalformed ==
    Malformed(encoded.val) =>
        /\ decoded.kind # "bytes"
        /\ (svg.content.has_video_data /\ extracted.ret # "None"
               => extracted.ret = "DecodingError")

----------------------------------------------------------------------------
(* Properties of the polyglot codec *)

\* C2: extracting from a container that convert wrote returns True and
\* writes exactly the payload, also after the section's lines have been
\* re-wrapped to another width
C2_PolyRoundTrip ==
    [][(container.exists /\ poly_extracted' # poly_extracted)
           => poly_extracted' = Outcome("True", Bytes(mp4_data))]_vars

\* C2 witness: the 256-byte payload of all byte values has been extracted
\* from its container
C2_Witness ==
    /\ mp4_data = AllBytes
    /\ container.exists
    /\ poly_extracted = Outcome("True", Bytes(AllBytes))

\* the 0-based offsets at which marker occurs in text
Occurrences(text, marker) ==
    {i \in 0..(Len(text) - Len(marker)) : SubSeq(text, i + 1, i + Len(marker)) = marker}

\* the start marker or the end marker is absent, or every end marker lies
\* before the first start marker
SectionMissing(text) ==
    \/ Occurrences(text, StartMarker) = {}
    \/ Occurrences(text, EndMarker) = {}
    \/ \A e \in Occurrences(text, EndMarker) :
           \A b \in Occurrences(text, StartMarker) : e < b

ConvertCalls == {i \in 1..Len(history) : history[i].op = "convert"}

\* the position of the constructor call of the converter that call i used
ConstructorOf(i) ==
    CHOOSE k \in 1..i : /\ history[k].op = "init"
                        /\ \A m \in (k + 1)..i : history[m].op # "init"

RECURSIVE HostComments(_, _)
HostComments(text, start) ==
    LET Closed(open, close) ==
            IF close = -1 THEN <<[open |-> open, close |-> Len(text)]>>
            ELSE <<[open |-> open, close |-> close + 3]>> \o HostComments(text, close + 3)
        Opened(open) ==
            IF open = -1 THEN <<>>
            ELSE Closed(open, Find(text, <<45, 45, 62>>, open + 4))
    IN Opened(Find(text, <<60, 33, 45, 45>>, start))

\* the region text[a:b] lies inside one comment of the document
InsideComment(comments, a, b) ==
    \E k \in 1..Len(comments) : comments[k].open <= a /\ b <= comments[k].close

\* the container holds what convert wrote for the payloads
ConvertWrote ==
    /\ container.exists
    /\ container.content = PolyglotContent(boundary.text, mp4_data, pdf_data,
                                           _encode_for_svg_comment(mp4_data),
                                           _encode_for_svg_comment(pdf_data))

\* C21: in the container convert wrote, every boundary token and every
\* payload section lies inside a comment of the host document, and no
\* comment opener occurs inside an open comment
C21_EmbeddedInComments ==
    ConvertWrote =>
        LET text == container.content
            comments == HostComments(text, 0)
        IN /\ \A p \in Occurrences(text, boundary.text) :
                  InsideComment(comments, p, p + Len(boundary.text))
           /\ \A p \in Occurrences(text, StartMarker) :
                  InsideComment(comments, p, Find(text, EndMarker, p) + Len(EndMarker))
           /\ \A p \in Occurrences(text, <<60, 33, 45, 45>>) :
                  \A k \in 1..Len(comments) :
                      ~(comments[k].open < p /\ p < comments[k].close)

----------------------------------------------------------------------------
(* QRCodeSVGConverter: the chunk envelopes and their reconstruction *)

\* byte values of the payloads given to the chunk-envelope converter
QRByteVals == {0, 1}

\* hashlib.md5(chunk).hexdigest()[:8], tabulated for the chunks over
\* QRByteVals of up to five bytes
Md5Table ==
    <<>> :> "d41d8cd9"
    @@ <<0>> :> "93b885ad"
    @@ <<1>> :> "55a54008"
    @@ <<0, 0>> :> "c4103f12"
    @@ <<0, 1>> :> "441077cc"
    @@ <<1, 0>> :> "25daad3d"
    @@ <<1, 1>> :> "249ba627"
    @@ <<0, 0, 0>> :> "693e9af8"
    @@ <<0, 0, 1>> :> "380e1e55"
    @@ <<0, 1, 0>> :> "418f2796"
    @@ <<0, 1, 1>> :> "34fd7b20"
    @@ <<1, 0, 0>> :> "30a771fb"
    @@ <<1, 0, 1>> :> "01e9802f"
    @@ <<1, 1, 0>> :> "92ca13cf"
    @@ <<1, 1, 1>> :> "12f023f0"
    @@ <<0, 0, 0, 0>> :> "f1d3ff84"
    @@ <<0, 0, 0, 1>> :> "f1450306"
    @@ <<0, 0, 1, 0>> :> "2ab4b906"
    @@ <<0, 0, 1, 1>> :> "2202e9f8"
    @@ <<0, 1, 0, 0>> :> "03bf3e51"
    @@ <<0, 1, 0, 1>> :> "8a1de3eb"
    @@ <<0, 1, 1, 0>> :> "eff84121"
    @@ <<0, 1, 1, 1>> :> "11e89f74"
    @@ <<1, 0, 0, 0>> :> "4352d88a"
    @@ <<1, 0, 0, 1>> :> "d86fb5d6"
    @@ <<1, 0, 1, 0>> :> "13cae8e6"
    @@ <<1, 0, 1, 1>> :> "9cf9ea1c"
    @@ <<1, 1, 0, 0>> :> "a88168ac"
    @@ <<1, 1, 0, 1>> :> "a3a0a401"
    @@ <<1, 1, 1, 0>> :> "e8fd084c"
    @@ <<1, 1, 1, 1>> :> "3b5b9852"
    @@ <<0, 0, 0, 0, 0>> :> "ca9c491a"
    @@ <<0, 0, 0, 0, 1>> :> "d66ac872"
    @@ <<0, 0, 0, 1, 0>> :> "113b7f2f"
    @@ <<0, 0, 0, 1, 1>> :> "b334c8df"
    @@ <<0, 0, 1, 0, 0>> :> "f334852d"
    @@ <<0, 0, 1, 0, 1>> :> "e4280ce0"
    @@ <<0, 0, 1, 1, 0>> :> "3563154e"
    @@ <<0, 0, 1, 1, 1>> :> "3ac8471a"
    @@ <<0, 1, 0, 0, 0>> :> "a72128d2"
    @@ <<0, 1, 0, 0, 1>> :> "97bf9d00"
    @@ <<0, 1, 0, 1, 0>> :> "ac7b1b9f"
    @@ <<0, 1, 0, 1, 1>> :> "1c43055c"
    @@ <<0, 1, 1, 0, 0>> :> "1442c567"
    @@ <<0, 1, 1, 0, 1>> :> "d4e216f3"
    @@ <<0, 1, 1, 1, 0>> :> "f1a80dd3"
    @@ <<0, 1, 1, 1, 1>> :> "946d1494"
    @@ <<1, 0, 0, 0, 0>> :> "c06857e9"
    @@ <<1, 0, 0, 0, 1>> :> "f6d7ed39"
    @@ <<1, 0, 0, 1, 0>> :> "de672a6f"
    @@ <<1, 0, 0, 1, 1>> :> "34ae70f7"
    @@ <<1, 0, 1, 0, 0>> :> "2d665ff9"
    @@ <<1, 0, 1, 0, 1>> :> "5d708ae2"
    @@ <<1, 0, 1, 1, 0>> :> "2ecfb723"
    @@ <<1, 0, 1, 1, 1>> :> "cacd6838"
    @@ <<1, 1, 0, 0, 0>> :> "bd47df3e"
    @@ <<1, 1, 0, 0, 1>> :> "22c17b96"
    @@ <<1, 1, 0, 1, 0>> :> "2c398c42"
    @@ <<1, 1, 0, 1, 1>> :> "a0c1857c"
    @@ <<1, 1, 1, 0, 0>> :> "765c3d17"
    @@ <<1, 1, 1, 0, 1>> :> "160a4b49"
    @@ <<1, 1, 1, 1, 0>> :> "9fd22686"
    @@ <<1, 1, 1, 1, 1>> :> "2f4401f2"

\* the checksum field of an envelope
Md5Hex8(chunk) == Md5Table[chunk]

\* the split keeping only the chunks of full size
Chunks_whole_only(data, size) ==
    [k \in 1..(Len(data) \div size) |->
        Slice(data, (k - 1) * size, (k - 1) * size + size)]

\* chunks = [mp4_data[i:i + chunk_size] for i in range(0, len(mp4_data), chunk_size)]
Chunks(data, size) ==
    [k \in 1..((Len(data) + size - 1) \div size) |->
        Slice(data, (k - 1) * size, (k - 1) * size + size)]

\* chunk_data of one chunk
Envelope(idx, total, chunk) ==
    [idx |-> idx, total |-> total, checksum |-> Md5Hex8(chunk), data |-> B64Encode(chunk)]

\* the envelopes of all chunks, in the order convert builds them
Envelopes(data, size) ==
    LET chunks == Chunks(data, size)
    IN [k \in 1..Len(chunks) |-> Envelope(k - 1, Len(chunks), chunks[k])]

\* chunks[idx] = data for every envelope read: a later envelope replaces an
\* earlier one of the same idx
ChunksDict(scan) ==
    [i \in {scan[k].idx : k \in 1..Len(scan)} |->
        scan[CHOOSE k \in 1..Len(scan) :
                /\ scan[k].idx = i
                /\ \A m \in (k + 1)..Len(scan) : scan[m].idx # i]]

\* the envelopes in the order of the dictionary's insertions
SortedChunks_reading_order(scan) ==
    LET chunks == ChunksDict(scan)
        firsts == {k \in 1..Len(scan) : \A m \in 1..(k - 1) : scan[m].idx # scan[k].idx}
    IN [k \in 1..Cardinality(firsts) |->
          chunks[scan[CHOOSE f \in firsts :
                        Cardinality({g \in firsts : g < f}) = k - 1].idx]]

\* sorted_chunks = [chunks[i] for i in sorted(chunks.keys())]
SortedChunks(scan) ==
    LET chunks == ChunksDict(scan)
        keys == DOMAIN chunks
    IN [k \in 1..Cardinality(keys) |->
          chunks[CHOOSE i \in keys : Cardinality({j \in keys : j < i}) = k - 1]]

\* full_b64 = ''.join(chunk['data'] for chunk in sorted_chunks)
FullB64(scan) ==
    LET sorted_chunks == SortedChunks(scan)
    IN Join([k \in 1..Len(sorted_chunks) |-> sorted_chunks[k].data])

\* extract_qr_codes_from_svg() of the extraction script, from the envelopes
\* decoded from the symbols: the result and the bytes written
ExtractQrCodes(scan) ==
    IF scan = <<>> THEN Outcome("False", None)
    ELSE LET mp4 == B64Decode(FullB64(scan))
         IN IF mp4.kind = "bytes" THEN Outcome("True", mp4)
            ELSE Outcome("binascii.Error", None)

\* the envelope with one byte of its chunk changed, which changes one
\* character of its data and leaves its checksum as it was
Corrupted(envelope, pos) ==
    LET chunk == B64Decode(envelope.data).val
    IN [envelope EXCEPT !.data =
           B64Encode([chunk EXCEPT ![pos] = 1 - chunk[pos]])]

InitQR ==
    /\ mp4_data \in SeqsUpTo(QRByteVals, MaxQRLen)
    /\ chunk_size \in 1..MaxChunk
    /\ envelopes = <<>>
    /\ qr_converted = None
    /\ scanned = <<>>
    /\ reconstructed = Outcome("None", None)
    /\ qr_extracted = None
    /\ A85Idle
    /\ PolyIdle
    /\ ValIdle
    /\ SvgIdle

\* convert(mp4_path, output_path) on a payload file the video library accepts
ConvertQR ==
    /\ qr_converted = None
    /\ envelopes' = Envelopes(mp4_data, chunk_size)
    /\ qr_converted' = Returned("output_path")
    /\ UNCHANGED <<mp4_data, chunk_size, scanned, reconstructed, qr_extracted, a85vars, polyvars, valvars, svgvars>>

\* extract(svg_path, output_mp4): building the extraction script evaluates
\* root.nsmap[None] where no root is bound, and the NameError is raised
\* again as DecodingError before any script is written
ExtractQR ==
    /\ qr_extracted = None
    /\ qr_extracted' = Returned("DecodingError")
    /\ UNCHANGED <<mp4_data, chunk_size, envelopes, qr_converted, scanned, reconstructed, a85vars, polyvars, valvars, svgvars>>

\* a symbol of the container is read back and its envelope decoded
ScanSymbol ==
    /\ qr_converted # None
    /\ reconstructed.ret = "None"
    /\ Len(scanned) < MaxScans
    /\ \E k \in 1..Len(envelopes) : scanned' = Append(scanned, envelopes[k])
    /\ UNCHANGED <<mp4_data, chunk_size, envelopes, qr_converted, reconstructed, qr_extracted, a85vars, polyvars, valvars, svgvars>>

\* a symbol is read back with a damaged data field
ScanDamagedSymbol ==
    /\ qr_converted # None
    /\ reconstructed.ret = "None"
    /\ Len(scanned) < MaxScans
    /\ \E k \in 1..Len(envelopes) :
          \E pos \in 1..Len(B64Decode(envelopes[k].data).val) :
              scanned' = Append(scanned, Corrupted(envelopes[k], pos))
    /\ UNCHANGED <<mp4_data, chunk_size, envelopes, qr_converted, reconstructed, qr_extracted, a85vars, polyvars, valvars, svgvars>>

\* the reconstruction of the extraction script runs on the envelopes read
Reconstruct ==
    /\ qr_converted # None
    /\ reconstructed.ret = "None"
    /\ reconstructed' = ExtractQrCodes(scanned)
    /\ UNCHANGED <<mp4_data, chunk_size, envelopes, qr_converted, scanned, qr_extracted, a85vars, polyvars, valvars, svgvars>>

NextQR == ConvertQR \/ ExtractQR \/ ScanSymbol \/ ScanDamagedSymbol \/ Reconstruct

SpecQR == InitQR /\ [][NextQR]_vars

----------------------------------------------------------------------------
(* Properties of the chunk-envelope codec *)

\* the data fields of the envelopes convert built, in ascending idx order
ConcatenatedData == Join([k \in 1..Len(envelopes) |-> envelopes[k].data])

\* C8: the data fields of the envelopes, concatenated in ascending idx
\* order, are the base64 encoding of the whole payload, and base64-decoding
\* the concatenation returns the payload
C8_ConcatenationIsBase64 ==
    qr_converted # None =>
        /\ ConcatenatedData = B64Encode(mp4_data)
        /\ B64Decode(ConcatenatedData) = Bytes(mp4_data)

\* the idx values read are not exactly 0..total-1, each once
IncompleteOrDuplicated(scan) ==
    \/ \E i \in 0..(scan[1].total - 1) : \A k \in 1..Len(scan) : scan[k].idx # i
    \/ \E k \in 1..Len(scan) : \E m \in 1..Len(scan) : k # m /\ scan[k].idx = scan[m].idx

\* the positions of the envelopes whose data does not match their checksum
CorruptedAt(scan) ==
    {k \in 1..Len(scan) : Md5Hex8(B64Decode(scan[k].data).val) # scan[k].checksum}

\* C9: reconstruction from a set of envelopes with a missing or repeated
\* idx, or with an envelope whose data does not match its checksum, fails
\* with DecodingError and returns no bytes
C9_ValidatesEnvelopes ==
    (/\ reconstructed.ret # "None"
     /\ scanned # <<>>
     /\ (IncompleteOrDuplicated(scanned) \/ CorruptedAt(scanned) # {}))
        => reconstructed = Outcome("DecodingError", None)

\* scan holds every envelope of convert exactly once
IsCompleteSet(scan) ==
    /\ Len(scan) = Len(envelopes)
    /\ \A k \in 1..Len(envelopes) : \E m \in 1..Len(scan) : scan[m] = envelopes[k]

\* C10: reconstruction from a complete set of envelopes gives the same
\* result and the same bytes in whatever order the envelopes are supplied
C10_OrderInvariant ==
    (reconstructed.ret # "None" /\ IsCompleteSet(scanned))
        => reconstructed = ExtractQrCodes(envelopes)

\* C10 witness: three envelopes were supplied in descending idx order and
\* the reconstruction has run
C10_Witness ==
    /\ reconstructed.ret = "True"
    /\ IsCompleteSet(scanned)
    /\ Len(scanned) = 3
    /\ scanned[1].idx = 2
    /\ scanned[3].idx = 0

\* the chunks the envelopes carry: the base64 decoding of each data field
EnvelopeChunks == [k \in 1..Len(envelopes) |-> B64Decode(envelopes[k].data).val]

\* C22: convert produces ceil(len(payload) / chunk_size) envelopes with
\* idx 0, 1, ... in order and total equal to their number; every chunk has
\* chunk_size bytes except the last, which has 1..chunk_size; the chunks
\* concatenated in idx order are the payload; an empty payload gives no
\* envelope
C22_ChunkEnvelopes ==
    qr_converted # None =>
        /\ Len(envelopes) * chunk_size >= Len(mp4_data)
        /\ (Len(envelopes) - 1) * chunk_size < Len(mp4_data)
        /\ \A k \in 1..Len(envelopes) :
              /\ envelopes[k].idx = k - 1
              /\ envelopes[k].total = Len(envelopes)
              /\ k < Len(envelopes) => Len(EnvelopeChunks[k]) = chunk_size
              /\ k = Len(envelopes) => Len(EnvelopeChunks[k]) \in 1..chunk_size
        /\ Join(EnvelopeChunks) = mp4_data
        /\ mp4_data = <<>> => envelopes = <<>>

\* C22 witness: a three-byte payload was converted with chunk_size 2 into
\* a full chunk and a short last chunk
C22_Witness ==
    /\ qr_converted # None
    /\ Len(mp4_data) = 3
    /\ chunk_size = 2
    /\ Len(envelopes) = 2
    /\ Len(EnvelopeChunks[2]) = 1

----------------------------------------------------------------------------
(* mp4svg/ascii85.py: the ASCII85 converter IntegrityValidator imports *)

\* _encode_ascii85 of ascii85.py: the encoder's loop, framed by '<~' and
\* '~>' only
LegacyEncodeAscii85(data) == <<60, 126>> \o EncodeBody(data) \o <<126, 62>>

\* the while loop of _decode_ascii85 of ascii85.py from offset i: every
\* group gives four bytes, a short final group is padded with 'u'
RECURSIVE LegacyDecodeLoop(_, _, _)
LegacyDecodeLoop(body, i, acc) ==
    IF i >= Len(body) THEN Bytes(acc)
    ELSE IF body[i + 1] = 122 THEN LegacyDecodeLoop(body, i + 1, acc \o <<0, 0, 0, 0>>)
    ELSE LET raw == Slice(body, i, i + 5)
             chunk == raw \o [k \in 1..(5 - Len(raw)) |-> 117]
             value == GroupValue(chunk)
         IN IF ~FitsU32(value) THEN Raised("struct.error")
            ELSE LegacyDecodeLoop(body, i + 5, acc \o PackBE(value))

\* _decode_ascii85 of ascii85.py
LegacyDecodeAscii85(text) == LegacyDecodeLoop(Undelimited(text), 0, <<>>)

\* extract(svg_path, output_mp4) of ascii85.py: the result and the bytes
\* written to output_mp4
LegacyExtractAscii85(file) ==
    IF ~file.exists \/ ~file.readable \/ ~file.tree.well_formed THEN Outcome("DecodingError", None)
    ELSE IF ~file.tree.video_data.has_video_data THEN Outcome("False", None)
    ELSE IF file.tree.video_data.text = <<>> THEN Outcome("DecodingError", None)
    ELSE LET raw == B64Decode(Strip(file.tree.video_data.text))
             decoded_b64 == IF raw.kind = "bytes" THEN DecodeAsciiText(raw.val) ELSE raw
             result == IF decoded_b64.kind = "str" THEN LegacyDecodeAscii85(decoded_b64.val)
                       ELSE decoded_b64
         IN IF result.kind = "bytes" THEN Outcome("True", result)
            ELSE Outcome("DecodingError", None)

\* extract(svg_path, output_mp4) of the polyglot converter on a file of the
\* file system
PolyglotExtractFile(file) ==
    IF ~file.exists \/ ~file.readable THEN Outcome("DecodingError", None)
    ELSE ExtractPolyglot(Text(file.content))

----------------------------------------------------------------------------
(* IntegrityValidator *)

\* hashlib.sha256(data).hexdigest(), tabulated for the byte sequences over
\* {0, 1} of up to four bytes and for the bytes the decoder of ascii85.py
\* returns for the frames of converters/ascii85_converter.py on payloads of
\* up to three bytes
Sha256Hex(data) ==
    (<<>> :>
        "e3b0c44298fc1c149afbf4c8996fb92427ae41e4649b934ca495991b7852b855"
    @@ <<0>> :>
        "6e340b9cffb37a989ca544e6bb780a2c78901d3fb33738768511a30617afa01d"
    @@ <<1>> :>
        "4bf5122f344554c53bde2ebb8cd2b7e3d1600ad631c385a5d7cce23c7785459a"
    @@ <<0, 0>> :>
        "96a296d224f285c67bee93c30f8a309157f0daa35dc5b87e410b78630a09cfc7"
    @@ <<0, 1>> :>
        "b413f47d13ee2fe6c845b2ee141af81de858df4ec549a58b7970bb96645bc8d2"
    @@ <<1, 0>> :>
        "47dc540c94ceb704a23875c11273e16bb0b8a87aed84de911f2133568115f254"
    @@ <<1, 1>> :>
        "9dcf97a184f32623d11a73124ceb99a5709b083721e878a16d78f596718ba7b2"
    @@ <<0, 0, 0>> :>
        "709e80c88487a2411e1ee4dfb9f22a861492d20c4765150c0c794abd70f8147c"
    @@ <<0, 0, 1>> :>
        "cf7605ed1bc735f6c825554154627467e1cac9df54cee8699218ed434603c568"
    @@ <<0, 1, 0>> :>
        "faee935763044f124d7526755a5058a33f9402a595994d59eddd4be8546ff201"
    @@ <<0, 1, 1>> :>
        "fbb59ed10e9cd4ff45a12c5bb92cbd80df984ba1fe60f26a30febf218e2f0f5e"
    @@ <<1, 0, 0>> :>
        "fb50dc0717ff266cf9baf82b1ce7a1c2ef6d9247859680b11a19fb7077f5f222"
    @@ <<1, 0, 1>> :>
        "85f90dfea1d8027e1463e5ca971a250110a20df0119d204a74220bc63516d15b"
    @@ <<1, 1, 0>> :>
        "9f44ac6acb8a37b00b615dc89259d306035be82dee7db2b472e4c48326195440"
    @@ <<1, 1, 1>> :>
        "75c8fd04ad916aec3e3d5cb76a452b116b3d4d0912a0a485e9fb8e3d240e210c"
    @@ <<0, 0, 0, 0>> :>
        "df3f619804a92fdb4057192dc43dd748ea778adc52bc498ce80524c014b81119"
    @@ <<0, 0, 0, 1>> :>
        "b40711a88c7039756fb8a73827eabe2c0fe5a0346ca7e0a104adc0fc764f528d"
    @@ <<0, 0, 1, 0>> :>
        "6b1e73a0094b7b812d3b9e22cffb4f8239319847522c4fa103753b6950020f93"
    @@ <<0, 0, 1, 1>> :>
        "4afc7d98518180331a55e2f7b2d03f93c15d1c24afc976cdfb5737e02a190203"
    @@ <<0, 1, 0, 0>> :>
        "bf5e8ffa51a9e748985800c1d3d7f1a2a6ae7435136593ca8d9637e3f87c699c"
    @@ <<0, 1, 0, 1>> :>
        "76cc5805dab9b4eacefdb477f498020fd82bccdbc9c6a2d9ce10586ac85512b4"
    @@ <<0, 1, 1, 0>> :>
        "d5e2d2ac07b741be58f6b9e50ede5fdcf16f3e8053ecef9350e7744b0d8bd90c"
    @@ <<0, 1, 1, 1>> :>
        "cbd95ae5ef8810691e3fc7efb7c39ef9ffb661135d858aa0ccc81fc74a0160ae"
    @@ <<1, 0, 0, 0>> :>
        "67abdd721024f0ff4e0b3f4c2fc13bc5bad42d0b7851d456d88d203d15aaa450"
    @@ <<1, 0, 0, 1>> :>
        "afa7518106309c22d325df6d2663249d158d2f36f1976269d6d4104d9198a108"
    @@ <<1, 0, 1, 0>> :>
        "507503b51960cceda8d924904fb85377fe7d177fb8dfcf56b24e4557644ed486"
    @@ <<1, 0, 1, 1>> :>
        "52a5c4a10657220cac05c63adfa923c7771c55d868a58ee360eb3d1511985c3e"
    @@ <<1, 1, 0, 0>> :>
        "a0454a24dd4bc418448ca19320519ea3fe544fa1a910868b62ca210614f119f8"
    @@ <<1, 1, 0, 1>> :>
        "252c0b6b080fa045acfcd1437f693f3be2be2ac8223ea525d492fa19ab028942"
    @@ <<1, 1, 1, 0>> :>
        "f896c3a5f9841b6e1f0a22bd35a6a1bc5efb28aaa23b66301ec8098ce57cf99a"
    @@ <<1, 1, 1, 1>> :>
        "27ecd0a598e76f8a2fd264d427df0a119903e8eae384e478902541756f089dd1"
    @@ <<47, 159, 106, 112>> :>
        "ed8f28d2a98ed455e7ddaad5daee71c13e37d9b654b20a5728bbac975b99fd0b"
    @@ <<50, 178, 144, 53, 0, 9, 94, 236>> :>
        "453e84816a7a092b93cee245e42b2f9aaa31c53a5e663a793d8e50f09a51b81f"
    @@ <<50, 178, 153, 71, 28, 19, 104, 18>> :>
        "b547bf196c983250bf430179e68f2d8298fefb4dad4b2dc2cc4475c011f52741"
    @@ <<53, 207, 20, 230, 0, 9, 94, 236>> :>
        "a0983876e07d07892d1ceeb05de1a5a7791538facd74bca9c09e1231020513b1"
    @@ <<53, 207, 20, 239, 18, 189, 217, 255>> :>
        "5f129caa984ad05235c7c7a109d245d8bc6980edf1184702791fcf35983f1d5c"
    @@ <<53, 207, 29, 248, 28, 19, 104, 18>> :>
        "e17bc0e335a2a1e3a160b5ebbb34faf0bf4befb546d8048bd05806e93fe3c8df"
    @@ <<53, 207, 30, 1, 46, 199, 227, 37>> :>
        "0f874e796e903f57a52d3d26edce4f580e6fdda82a503a5bd0ab4573bea3b4ac"
    @@ <<56, 235, 153, 151, 0, 9, 94, 236>> :>
        "ed7383151e1e1f59d8fe941cca802b480df40711d94bd9d49af707520f66a76c"
    @@ <<56, 235, 153, 151, 9, 104, 75, 236>> :>
        "d0b6399b06a2010d1cdea990936ceb0942c2ade431a5275e52187a20595ec33a"
    @@ <<56, 235, 153, 160, 18, 189, 217, 255>> :>
        "d9448c714a962eee1a9459c77afb4f3c8978e13132c807a6a1c3e635f69fa701"
    @@ <<56, 235, 153, 160, 28, 28, 198, 255>> :>
        "13c8db962c678ddc302d3cef25bebe1dfae2a1e5687cee95eeedf6a68f56fbf2"
    @@ <<56, 235, 162, 169, 28, 19, 104, 18>> :>
        "0c5df9ee4752d8fec294b485bfe85dd600afaa6ba93efe7ead12c0c1e2be97de"
    @@ <<56, 235, 162, 169, 37, 114, 85, 18>> :>
        "013c537f6ea5ede7079fd45d047748546377878643158850043413292ae83fc7"
    @@ <<56, 235, 162, 178, 46, 199, 227, 37>> :>
        "d0840df1f3097de0890a52f30e889026adee32c4e570851a89020a3de3bf179b"
    @@ <<56, 235, 162, 178, 56, 38, 208, 37>> :>
        "b9800f8f89267bd16d81c95380de55d90e3fdadc5d358d0eff880e31bace62f3")[data]

\* s.replace(old, new)
RECURSIVE Replace(_, _, _)
Replace(s, old, new) ==
    LET i == Find(s, old, 0)
    IN IF i = -1 THEN s
       ELSE SubSeq(s, 1, i) \o new \o Replace(SliceFrom(s, i + Len(old)), old, new)

\* ".svg"
DotSvg == <<46, 115, 118, 103>>

\* "_temp_extracted.mp4"
TempSuffix ==
    <<95, 116, 101, 109, 112, 95, 101, 120, 116, 114, 97, 99, 116, 101, 100, 46, 109, 112, 52>>

\* temp_output = svg_path.replace('.svg', '_temp_extracted.mp4')
TempOutput(path) == Replace(path, DotSvg, TempSuffix)

\* the file system with the file at path removed (os.unlink)
Unlinked(fs, path) == [p \in DOMAIN fs |-> IF p = path THEN Absent ELSE fs[p]]

\* _extract_data(svg_path, format_type): the data returned (None when
\* there is none) and the file system it leaves.  The converter writes
\* temp_output; _extract_data reads it back and unlinks it, and unlinks it
\* too when the converter raised and a file stands at temp_output
ExtractData(fs, path, format_type) ==
    LET \* the converter cannot open a temp_output that exists and is not
        \* accessible: its write raises, which extract turns into DecodingError
        Written(temp_output, extraction) ==
            IF /\ extraction.ret = "True"
               /\ temp_output \in DOMAIN fs
               /\ fs[temp_output].exists /\ ~fs[temp_output].readable
            THEN Outcome("DecodingError", None)
            ELSE extraction
        ReadBack(temp_output, success) ==
            IF success.ret = "True"
            THEN [data |-> success.written, fs |-> Unlinked(fs, temp_output)]
            ELSE IF success.ret = "False" THEN [data |-> None, fs |-> fs]
            ELSE [data |-> None, fs |-> Unlinked(fs, temp_output)]
        Extracted(temp_output, extraction) ==
            ReadBack(temp_output, Written(temp_output, extraction))
    IN IF format_type = "ascii85"
       THEN Extracted(TempOutput(path), LegacyExtractAscii85(fs[path]))
       ELSE IF format_type = "polyglot"
       THEN Extracted(TempOutput(path), PolyglotExtractFile(fs[path]))
       ELSE [data |-> None, fs |-> fs]

\* the comparison leaving extraction_successful as it was
Compared_unflagged(result, format_type, extracted_data, original_mp4) ==
    LET with_data == [result EXCEPT !.extracted_size = Len(extracted_data),
                             !.extracted_checksum = Sha256Hex(extracted_data)]
    IN IF original_mp4.supplied /\ original_mp4.file.exists
       THEN IF ~original_mp4.file.readable
            THEN [with_data EXCEPT !.errors =
                     Append(@, Msg("Integrity validation failed: ", "OSError", <<>>))]
            ELSE LET original_data == original_mp4.file.content
                     size_match == Len(extracted_data) = Len(original_data)
                     checksum_match == Sha256Hex(extracted_data) = Sha256Hex(original_data)
                     size_errors == IF size_match THEN <<>>
                                    ELSE <<Msg("Size mismatch: extracted vs original bytes", "",
                                               <<Len(extracted_data), Len(original_data)>>)>>
                     checksum_errors == IF checksum_match THEN <<>>
                                        ELSE <<Msg("Checksum mismatch: data corruption detected",
                                                   "", <<>>)>>
                 IN [with_data EXCEPT !.original_size = Len(original_data),
                                      !.original_checksum = Sha256Hex(original_data),
                                      !.size_match = size_match,
                                      !.checksum_match = checksum_match,
                                      !.data_integrity_valid = size_match /\ checksum_match,
                                      !.errors = @ \o size_errors \o checksum_errors]
       ELSE [with_data EXCEPT !.warnings =
                                  Append(@, Msg("No original MP4 provided for comparison", "", <<>>)),
                              !.data_integrity_valid = format_type \in {"polyglot", "ascii85"}]

\* the comparison taking equal sizes for integrity
Compared_size_only(result, format_type, extracted_data, original_mp4) ==
    LET with_data == [result EXCEPT !.extraction_successful = TRUE,
                                    !.extracted_size = Len(extracted_data),
                                    !.extracted_checksum = Sha256Hex(extracted_data)]
    IN IF original_mp4.supplied /\ original_mp4.file.exists
       THEN IF ~original_mp4.file.readable
            THEN [with_data EXCEPT !.errors =
                     Append(@, Msg("Integrity validation failed: ", "OSError", <<>>))]
            ELSE LET original_data == original_mp4.file.content
                     size_match == Len(extracted_data) = Len(original_data)
                     checksum_match == Sha256Hex(extracted_data) = Sha256Hex(original_data)
                     size_errors == IF size_match THEN <<>>
                                    ELSE <<Msg("Size mismatch: extracted vs original bytes", "",
                                               <<Len(extracted_data), Len(original_data)>>)>>
                     checksum_errors == IF checksum_match THEN <<>>
                                        ELSE <<Msg("Checksum mismatch: data corruption detected",
                                                   "", <<>>)>>
                 IN [with_data EXCEPT !.original_size = Len(original_data),
                                      !.original_checksum = Sha256Hex(original_data),
                                      !.size_match = size_match,
                                      !.checksum_match = checksum_match,
                                      !.data_integrity_valid = size_match,
                                      !.errors = @ \o size_errors \o checksum_errors]
       ELSE [with_data EXCEPT !.warnings =
                                  Append(@, Msg("No original MP4 provided for comparison", "", <<>>)),
                              !.data_integrity_valid = format_type \in {"polyglot", "ascii85"}]

\* the comparison of lines 70-89 for extracted data
Compared(result, format_type, extracted_data, original_mp4) ==
    LET with_data == [result EXCEPT !.extraction_successful = TRUE,
                                    !.extracted_size = Len(extracted_data),
                                    !.extracted_checksum = Sha256Hex(extracted_data)]
    IN IF original_mp4.supplied /\ original_mp4.file.exists
       THEN IF ~original_mp4.file.readable
            THEN [with_data EXCEPT !.errors =
                     Append(@, Msg("Integrity validation failed: ", "OSError", <<>>))]
            ELSE LET original_data == original_mp4.file.content
                     size_match == Len(extracted_data) = Len(original_data)
                     checksum_match == Sha256Hex(extracted_data) = Sha256Hex(original_data)
                     size_errors == IF size_match THEN <<>>
                                    ELSE <<Msg("Size mismatch: extracted vs original bytes", "",
                                               <<Len(extracted_data), Len(original_data)>>)>>
                     checksum_errors == IF checksum_match THEN <<>>
                                        ELSE <<Msg("Checksum mismatch: data corruption detected",
                                                   "", <<>>)>>
                 IN [with_data EXCEPT !.original_size = Len(original_data),
                                      !.original_checksum = Sha256Hex(original_data),
                                      !.size_match = size_match,
                                      !.checksum_match = checksum_match,
                                      !.data_integrity_valid = size_match /\ checksum_match,
                                      !.errors = @ \o size_errors \o checksum_errors]
       ELSE [with_data EXCEPT !.warnings =
                                  Append(@, Msg("No original MP4 provided for comparison", "", <<>>)),
                              !.data_integrity_valid = format_type \in {"polyglot", "ascii85"}]

\* validate_integrity without its exception handler: an exception raised
\* while the container or the original is read leaves the function
validate_integrity_unguarded(fs, path, original_mp4) ==
    LET Attempted(result, extraction) ==
            IF /\ extraction.data.kind = "bytes" /\ extraction.data.val # <<>>
               /\ original_mp4.supplied /\ original_mp4.file.exists
               /\ ~original_mp4.file.readable
            THEN [raised |-> "OSError", report |-> InitialResult, fs |-> extraction.fs]
            ELSE IF extraction.data.kind = "bytes" /\ extraction.data.val # <<>>
            THEN [raised |-> "None", fs |-> extraction.fs,
                  report |-> Compared(result, result.format_detected, extraction.data.val,
                                      original_mp4)]
            ELSE [raised |-> "None", fs |-> extraction.fs,
                  report |-> [result EXCEPT !.errors =
                                 Append(@, Msg("Failed to extract data from SVG", "", <<>>))]]
        Detected(file, format_type) ==
            IF ~file.exists
            THEN [raised |-> "FileNotFoundError", report |-> InitialResult, fs |-> fs]
            ELSE IF ~file.readable
            THEN [raised |-> "OSError", report |-> InitialResult, fs |-> fs]
            ELSE IF format_type = "None"
            THEN [raised |-> "None", fs |-> fs,
                  report |-> [InitialResult EXCEPT
                                 !.format_detected = format_type,
                                 !.errors = Append(@, Msg("Could not detect mp4svg format",
                                                          "", <<>>))]]
            ELSE Attempted([InitialResult EXCEPT !.format_detected = format_type],
                           ExtractData(fs, path, format_type))
    IN Detected(fs[path], IntegrityDetectFormat(fs[path].content))

\* validate_integrity going on to extraction when no format is detected
validate_integrity_extracts_undetected(fs, path, original_mp4) ==
    LET Attempted(result, extraction) ==
            IF extraction.data.kind = "bytes" /\ extraction.data.val # <<>>
            THEN [raised |-> "None", fs |-> extraction.fs,
                  report |-> Compared(result, result.format_detected, extraction.data.val,
                                      original_mp4)]
            ELSE [raised |-> "None", fs |-> extraction.fs,
                  report |-> [result EXCEPT !.errors =
                                 Append(@, Msg("Failed to extract data from SVG", "", <<>>))]]
        Detected(file, format_type) ==
            IF ~file.exists
            THEN [raised |-> "FileNotFoundError", report |-> InitialResult, fs |-> fs]
            ELSE IF ~file.readable
            THEN [raised |-> "None", fs |-> fs,
                  report |-> [InitialResult EXCEPT !.errors =
                                 Append(@, Msg("Integrity validation failed: ", "OSError",
                                               <<>>))]]
            ELSE Attempted([InitialResult EXCEPT !.format_detected = format_type],
                           ExtractData(fs, path, IF format_type = "None" THEN "polyglot"
                                                 ELSE format_type))
    IN Detected(fs[path], IntegrityDetectFormat(fs[path].content))

\* validate_integrity(svg_path, original_mp4_path): what it raises, the
\* report it returns and the file system it leaves
validate_integrity(fs, path, original_mp4) ==
    LET \* lines 64-91: extracted_data is the data of extraction
        Attempted(result, extraction) ==
            IF extraction.data.kind = "bytes" /\ extraction.data.val # <<>>
            THEN [raised |-> "None", fs |-> extraction.fs,
                  report |-> Compared(result, result.format_detected, extraction.data.val,
                                      original_mp4)]
            ELSE [raised |-> "None", fs |-> extraction.fs,
                  report |-> [result EXCEPT !.errors =
                                 Append(@, Msg("Failed to extract data from SVG", "", <<>>))]]
        \* lines 34-62
        Detected(file, format_type) ==
            IF ~file.exists
            THEN [raised |-> "FileNotFoundError", report |-> InitialResult, fs |-> fs]
            ELSE IF ~file.readable
            THEN [raised |-> "None", fs |-> fs,
                  report |-> [InitialResult EXCEPT !.errors =
                                 Append(@, Msg("Integrity validation failed: ", "OSError",
                                               <<>>))]]
            ELSE IF format_type = "None"
            THEN [raised |-> "None", fs |-> fs,
                  report |-> [InitialResult EXCEPT
                                 !.format_detected = format_type,
                                 !.errors = Append(@, Msg("Could not detect mp4svg format",
                                                          "", <<>>))]]
            ELSE Attempted([InitialResult EXCEPT !.format_detected = format_type],
                           ExtractData(fs, path, format_type))
    IN Detected(fs[path], IntegrityDetectFormat(fs[path].content))

----------------------------------------------------------------------------
(* The containers handed to the detectors and to the validator *)

\* a fragment of a document: its text and what the XML parser makes of it
Part(text, video_data, has_path_d, has_set_attribute) ==
    [text |-> text, video_data |-> video_data,
     has_path_d |-> has_path_d, has_set_attribute |-> has_set_attribute]

\* the texts documents are assembled from
Fragments ==
    [\* "<!--POLYGLOT_BOUNDARY_0-->"
     boundary_comment |-> <<60, 33, 45, 45, 80, 79, 76, 89, 71, 76, 79, 84, 95, 66, 79, 85,
         78, 68, 65, 82, 89, 95, 48, 45, 45, 62>>,
     \* "<!--MP4_DATA\nAAE=\nMP4_DATA-->"
     mp4_section |-> <<60, 33, 45, 45, 77, 80, 52, 95, 68, 65, 84, 65, 10, 65, 65, 69, 61,
         10, 77, 80, 52, 95, 68, 65, 84, 65, 45, 45, 62>>,
     \* "<!--MP4_DATA\n\nMP4_DATA-->"
     empty_mp4_section |-> <<60, 33, 45, 45, 77, 80, 52, 95, 68, 65, 84, 65, 10, 10, 77, 80,
         52, 95, 68, 65, 84, 65, 45, 45, 62>>,
     \* "<!--MP4_DATA\nA\nMP4_DATA-->"
     broken_mp4_section |-> <<60, 33, 45, 45, 77, 80, 52, 95, 68, 65, 84, 65, 10, 65, 10,
         77, 80, 52, 95, 68, 65, 84, 65, 45, 45, 62>>,
     \* "<video:data encoding="ascii85">"
     video_data_open |-> <<60, 118, 105, 100, 101, 111, 58, 100, 97, 116, 97, 32, 101, 110,
         99, 111, 100, 105, 110, 103, 61, 34, 97, 115, 99, 105, 105, 56, 53, 34, 62>>,
     \* "</video:data>"
     video_data_close |-> <<60, 47, 118, 105, 100, 101, 111, 58, 100, 97, 116, 97, 62>>,
     \* "PH56fj4="
     zero_block_b64 |-> <<80, 72, 53, 54, 102, 106, 52, 61>>,
     \* "A"
     broken_b64 |-> <<65>>,
     \* "<data encoding="ascii85"/>"
     ascii85_attribute |-> <<60, 100, 97, 116, 97, 32, 101, 110, 99, 111, 100, 105, 110,
         103, 61, 34, 97, 115, 99, 105, 105, 56, 53, 34, 47, 62>>,
     \* "<g id="qr-frame-0"/>"
     qr_frame_group |-> <<60, 103, 32, 105, 100, 61, 34, 113, 114, 45, 102, 114, 97, 109,
         101, 45, 48, 34, 47, 62>>,
     \* "<path d="M0,0"/>"
     path_element |-> <<60, 112, 97, 116, 104, 32, 100, 61, 34, 77, 48, 44, 48, 34, 47, 62>>,
     \* "<set attributeName="opacity"/>"
     set_element |-> <<60, 115, 101, 116, 32, 97, 116, 116, 114, 105, 98, 117, 116, 101, 78,
         97, 109, 101, 61, 34, 111, 112, 97, 99, 105, 116, 121, 34, 47, 62>>,
     \* "<desc>vector</desc>"
     vector_word |-> <<60, 100, 101, 115, 99, 62, 118, 101, 99, 116, 111, 114, 60, 47, 100,
         101, 115, 99, 62>>,
     \* "<svg xmlns:video="http://example.org/video/2024">"
     root_open |-> <<60, 115, 118, 103, 32, 120, 109, 108, 110, 115, 58, 118, 105, 100, 101,
         111, 61, 34, 104, 116, 116, 112, 58, 47, 47, 101, 120, 97, 109, 112, 108, 101, 46,
         111, 114, 103, 47, 118, 105, 100, 101, 111, 47, 50, 48, 50, 52, 34, 62>>,
     \* "</svg>"
     root_close |-> <<60, 47, 115, 118, 103, 62>>]

NoVideoData == Container(FALSE, <<>>)

\* the fragments documents are assembled from
Parts ==
    {Part(Fragments.boundary_comment, NoVideoData, FALSE, FALSE),
     Part(Fragments.mp4_section, NoVideoData, FALSE, FALSE),
     Part(Fragments.empty_mp4_section, NoVideoData, FALSE, FALSE),
     Part(Fragments.broken_mp4_section, NoVideoData, FALSE, FALSE),
     Part(Fragments.video_data_open \o Fragments.zero_block_b64 \o Fragments.video_data_close, Container(TRUE, Fragments.zero_block_b64), FALSE, FALSE),
     Part(Fragments.video_data_open \o Fragments.broken_b64 \o Fragments.video_data_close, Container(TRUE, Fragments.broken_b64), FALSE, FALSE),
     Part(Fragments.ascii85_attribute, NoVideoData, FALSE, FALSE),
     Part(Fragments.qr_frame_group, NoVideoData, FALSE, FALSE),
     Part(Fragments.path_element, NoVideoData, TRUE, FALSE),
     Part(Fragments.set_element, NoVideoData, FALSE, TRUE),
     Part(Fragments.vector_word, NoVideoData, FALSE, FALSE)}

RECURSIVE PartsText(_)
PartsText(ps) == IF ps = <<>> THEN <<>> ELSE Head(ps).text \o PartsText(Tail(ps))

\* the first <video:data> element of the fragments (root.find)
RECURSIVE FirstVideoData(_)
FirstVideoData(ps) ==
    IF ps = <<>> THEN NoVideoData
    ELSE IF Head(ps).video_data.has_video_data THEN Head(ps).video_data
    ELSE FirstVideoData(Tail(ps))

\* the container file made of the fragments ps inside a root element
Document(ps) ==
    SvgFile(Fragments.root_open \o PartsText(ps) \o Fragments.root_close,
            Tree(TRUE, FirstVideoData(ps),
                 \E k \in 1..Len(ps) : ps[k].has_path_d,
                 \E k \in 1..Len(ps) : ps[k].has_set_attribute))

\* the documents of at most MaxParts different fragments
Documents ==
    {Document(ps) : ps \in {s \in UNION {[1..n -> Parts] : n \in 0..MaxParts} :
                                \A i, j \in 1..Len(s) : s[i] = s[j] => i = j}}

\* the payloads containers are generated from
ValPayloads == SeqsUpTo(QRByteVals, MaxValLen)

\* the container PolyglotSVGConverter.convert writes for the payload mp4;
\* the XML parser rejects it, the comment standing before the declaration
PolyglotContainer(mp4) ==
    SvgFile(PolyglotContent(BoundaryPrefix \o [k \in 1..HexDigits |-> 48], mp4, <<>>,
                            _encode_for_svg_comment(mp4), <<>>),
            XmlError)

\* the container convert of mp4svg/ascii85.py writes for the payload mp4,
\* without its title, styling, preview and script elements
LegacyAscii85Container(mp4) ==
    LET encoded_b64 == B64Encode(LegacyEncodeAscii85(mp4))
    IN SvgFile(Fragments.root_open \o Fragments.video_data_open \o VideoDataText(encoded_b64) \o Fragments.video_data_close
               \o Fragments.root_close,
               Tree(TRUE, Container(TRUE, VideoDataText(encoded_b64)), FALSE, FALSE))

\* the container convert of converters/ascii85_converter.py writes for the
\* payload mp4 (the class the package exports), without its title, styling,
\* preview and script elements; for an empty payload convert raises after
\* the container is written
Ascii85Container(mp4) ==
    LET encoded_b64 == B64Encode(_encode_ascii85(mp4))
    IN SvgFile(Fragments.root_open \o Fragments.video_data_open \o VideoDataText(encoded_b64) \o Fragments.video_data_close
               \o Fragments.root_close,
               Tree(TRUE, Container(TRUE, VideoDataText(encoded_b64)), FALSE, FALSE))

\* the paths validated: "a.svg" and "b.SVG"
SvgNames == {<<97, 46, 115, 118, 103>>, <<98, 46, 83, 86, 71>>}

\* the names of the directory's files
Names == SvgNames \cup {TempOutput(n) : n \in SvgNames}

----------------------------------------------------------------------------
(* Detection and validate_integrity on one container *)

\* SVGVectorFrameConverter.extract(svg_path, output_mp4): prints that the
\* frames cannot be turned back into a video, returns False, writes nothing
VectorExtract(file) == Outcome("False", None)

\* extract without its exception handler: what the file's open or the
\* delegated converter raises leaves the function
HybridExtract_unguarded(file) ==
    LET format_type == HybridDetectFormat(file.content)
        delegated == IF format_type = "polyglot" THEN PolyglotExtractFile(file)
                     ELSE IF format_type = "ascii85" THEN LegacyExtractAscii85(file)
                     ELSE IF format_type = "qrcode" THEN Outcome("DecodingError", None)
                     ELSE IF format_type = "vector" THEN VectorExtract(file)
                     ELSE Outcome("False", None)
    IN IF ~file.exists \/ ~file.readable THEN Outcome("OSError", None)
       ELSE delegated

\* HybridSVGConverter.extract(svg_path, output_mp4): the converter of the
\* detected format extracts; the chunk-envelope converter always raises,
\* the vector converter always returns False, and every exception is
\* turned into False
HybridExtract(file) ==
    LET format_type == HybridDetectFormat(file.content)
        delegated == IF format_type = "polyglot" THEN PolyglotExtractFile(file)
                     ELSE IF format_type = "ascii85" THEN LegacyExtractAscii85(file)
                     ELSE IF format_type = "qrcode" THEN Outcome("DecodingError", None)
                     ELSE IF format_type = "vector" THEN VectorExtract(file)
                     ELSE Outcome("False", None)
    IN IF ~file.exists \/ ~file.readable THEN Outcome("False", None)
       ELSE IF delegated.ret = "DecodingError" THEN Outcome("False", None)
       ELSE delegated

\* the containers a validation starts from: documents made by hand, a
\* file that cannot be read, and the containers the converters write for
\* the payload
ContainerFiles(mp4) ==
    (IF mp4 = <<>> THEN Documents \cup {Unreadable} ELSE {})
    \cup {PolyglotContainer(mp4), LegacyAscii85Container(mp4), Ascii85Container(mp4)}

\* the originals a caller passes.  Hand-made documents are validated
\* without an original or against the payload of Fragments.mp4_section;
\* generated containers without one, against a path to nothing, a path
\* that cannot be read, and every payload file
OriginalsFor(file) ==
    IF file \in Documents \cup {Unreadable}
    THEN {NoOriginal, Original(TRUE, DataFile(<<0, 1>>))}
    ELSE {NoOriginal, Original(TRUE, Absent), Original(TRUE, Unreadable)}
         \cup {Original(TRUE, DataFile(b)) : b \in ValPayloads}

InitValidate ==
    /\ mp4_data \in ValPayloads
    /\ svg_path \in SvgNames
    /\ \E file \in ContainerFiles(mp4_data) :
          /\ files = [n \in Names |-> IF n = svg_path THEN file ELSE Absent]
          /\ original \in OriginalsFor(file)
    /\ detected = NoDetection
    /\ validated = NotValidated
    /\ original_directory = NoDirectory
    /\ batch = NoBatch
    /\ A85Idle
    /\ PolyIdle
    /\ QRIdle
    /\ SvgIdle

\* IntegrityValidator._detect_format(svg_path)
DetectIntegrity ==
    /\ detected.integrity = "not run"
    /\ files[svg_path].exists /\ files[svg_path].readable
    /\ detected' = [detected EXCEPT !.integrity = IntegrityDetectFormat(files[svg_path].content)]
    /\ UNCHANGED <<mp4_data, files, svg_path, original, validated, original_directory, batch,
                   a85vars, polyvars, qrvars, svgvars>>

\* SVGValidator.validate_svg_file(svg_path), its detected_format: left
\* None when the document does not parse
DetectSvgValidator ==
    /\ detected.svg_validator = "not run"
    /\ files[svg_path].exists /\ files[svg_path].readable
    /\ detected' = [detected EXCEPT !.svg_validator =
                        IF files[svg_path].tree.well_formed
                        THEN SvgValidatorDetectFormat(files[svg_path].content, files[svg_path].tree)
                        ELSE "None"]
    /\ UNCHANGED <<mp4_data, files, svg_path, original, validated, original_directory, batch,
                   a85vars, polyvars, qrvars, svgvars>>

\* HybridSVGConverter.extract(svg_path, output_mp4) with an output path
\* outside the directory, on a path that exists (a file that cannot be
\* read has no text and no signature)
DetectHybrid ==
    /\ detected.hybrid = "not run"
    /\ files[svg_path].exists
    /\ detected' = [detected EXCEPT !.hybrid = HybridDetectFormat(files[svg_path].content),
                                    !.hybrid_extracted = HybridExtract(files[svg_path])]
    /\ UNCHANGED <<mp4_data, files, svg_path, original, validated, original_directory, batch,
                   a85vars, polyvars, qrvars, svgvars>>

\* validate_integrity(svg_path, original_mp4_path)
ValidateIntegrity ==
    /\ ~validated.called
    /\ \E outcome \in {validate_integrity(files, svg_path, original)} :
          /\ validated' = [called |-> TRUE, file |-> files[svg_path],
                           raised |-> outcome.raised, report |-> outcome.report]
          /\ files' = outcome.fs
    /\ UNCHANGED <<mp4_data, svg_path, original, detected, original_directory, batch,
                   a85vars, polyvars, qrvars, svgvars>>

NextValidate == DetectIntegrity \/ DetectSvgValidator \/ DetectHybrid \/ ValidateIntegrity

SpecValidate == InitValidate /\ [][NextValidate]_vars

----------------------------------------------------------------------------
(* Properties of format detection *)

\* the container the detectors and the validator were given
TheContainer == IF validated.called THEN validated.file ELSE files[svg_path]

HasBoundary == Contains(TheContainer.content, BoundaryPrefix)

HasAscii85Marker == Contains(TheContainer.content, Signatures.ascii85)

HasQrFrame == Contains(TheContainer.content, Signatures.qr_frame)

\* the parsed document has a path element with a d attribute and a set
\* element with an attributeName
HasPathAndSet == TheContainer.tree.has_path_d /\ TheContainer.tree.has_set_attribute

\* C11: IntegrityValidator's detector returns the tag of the first
\* matching signature in the order polyglot, ascii85, qrcode, vector, and
\* none when no signature matches; a document with a boundary and the
\* ascii85 marker is polyglot, a document with a path and no set element
\* is not vector
C11_DetectPrecedence ==
    detected.integrity # "not run" =>
        /\ HasBoundary => detected.integrity = "polyglot"
        /\ ~HasBoundary /\ HasAscii85Marker => detected.integrity = "ascii85"
        /\ ~HasBoundary /\ ~HasAscii85Marker /\ HasQrFrame => detected.integrity = "qrcode"
        /\ ~HasBoundary /\ ~HasAscii85Marker /\ ~HasQrFrame /\ HasPathAndSet
               => detected.integrity = "vector"
        /\ ~HasBoundary /\ ~HasAscii85Marker /\ ~HasQrFrame /\ ~HasPathAndSet
               => detected.integrity = "None"
        /\ TheContainer.tree.has_path_d /\ ~TheContainer.tree.has_set_attribute
               => detected.integrity # "vector"

\* a document with both a boundary and the ascii85 marker was detected
C11_Witness ==
    /\ detected.integrity = "polyglot"
    /\ HasBoundary
    /\ HasAscii85Marker

ClosedTags == {"polyglot", "ascii85", "qrcode", "vector", "None"}

\* C12 as stated: each of the three detectors returns a tag of the closed
\* set {polyglot, ascii85, qrcode, vector} or none
C12_ClosedTagSet ==
    /\ detected.integrity # "not run" => detected.integrity \in ClosedTags
    /\ detected.svg_validator # "not run" => detected.svg_validator \in ClosedTags
    /\ detected.hybrid # "not run" => detected.hybrid \in ClosedTags

\* C12: IntegrityValidator's and HybridSVGConverter's detection return a
\* tag of the closed set or none; SVGValidator's detector returns a tag of
\* the closed set, none, or the fifth tag hybrid, and hybrid only when no
\* signature matches and the text holds one of the four format words
C12_TagSets ==
    /\ detected.integrity # "not run" => detected.integrity \in ClosedTags
    /\ detected.hybrid # "not run" => detected.hybrid \in ClosedTags
    /\ detected.svg_validator # "not run" =>
          /\ detected.svg_validator \in ClosedTags \cup {"hybrid"}
          /\ detected.svg_validator = "hybrid" =>
                /\ ~HasBoundary /\ ~HasAscii85Marker /\ ~HasQrFrame /\ ~HasPathAndSet
                /\ \E fmt \in FormatWords : Contains(TheContainer.content, fmt)

\* SVGValidator tagged a document hybrid that the other two detectors
\* left without a tag
C12_Witness ==
    /\ detected.svg_validator = "hybrid"
    /\ detected.integrity = "None"
    /\ detected.hybrid = "None"

(* Properties of HybridSVGConverter.extract *)

\* the text holds '<path d=' and '<set attributeName='
HasPathAndSetText ==
    /\ Contains(TheContainer.content, Signatures.path_d)
    /\ Contains(TheContainer.content, Signatures.set_attribute)

\* what the extract of the codec chosen by the precedence polyglot,
\* ascii85, qrcode, vector makes of the container; the chunk-envelope
\* converter's extract always raises DecodingError
ChosenCodecOutcome ==
    IF HasBoundary THEN PolyglotExtractFile(TheContainer)
    ELSE IF HasAscii85Marker THEN LegacyExtractAscii85(TheContainer)
    ELSE IF HasQrFrame THEN Outcome("DecodingError", None)
    ELSE VectorExtract(TheContainer)

\* C24: HybridSVGConverter.extract never raises; it returns False when no
\* signature matches, when the file cannot be read and when the extract of
\* the chosen codec raises, and otherwise returns what the extract of the
\* codec chosen by the precedence polyglot, ascii85, qrcode, vector returns
C24_HybridNeverRaises ==
    detected.hybrid # "not run" =>
        /\ detected.hybrid_extracted.ret \in {"True", "False"}
        /\ IF ~TheContainer.readable
           THEN detected.hybrid_extracted = Outcome("False", None)
           ELSE IF ~HasBoundary /\ ~HasAscii85Marker /\ ~HasQrFrame /\ ~HasPathAndSetText
           THEN detected.hybrid_extracted = Outcome("False", None)
           ELSE IF ChosenCodecOutcome.ret \notin {"True", "False"}
           THEN detected.hybrid_extracted = Outcome("False", None)
           ELSE detected.hybrid_extracted = ChosenCodecOutcome

\* C24 witness: the polyglot converter was chosen for a container whose
\* section does not decode, its extract raised DecodingError, and
\* HybridSVGConverter.extract returned False
C24_Witness ==
    /\ detected.hybrid = "polyglot"
    /\ PolyglotExtractFile(TheContainer).ret = "DecodingError"
    /\ detected.hybrid_extracted = Outcome("False", None)

----------------------------------------------------------------------------
(* Properties of validate_integrity *)

\* the container carries none of the four signatures
NoSignature == ~HasBoundary /\ ~HasAscii85Marker /\ ~HasQrFrame /\ ~HasPathAndSet

\* what the converter of the detected format makes of the container
CodecOutcome ==
    IF validated.report.format_detected = "ascii85" THEN LegacyExtractAscii85(validated.file)
    ELSE IF validated.report.format_detected = "polyglot" THEN PolyglotExtractFile(validated.file)
    ELSE Outcome("None", None)

\* the entries of a list of messages
Entries(messages) == {messages[k] : k \in 1..Len(messages)}

\* the characters of a message of the report
MessageChars(text) ==
    CASE text = "Could not detect mp4svg format" ->
             <<67, 111, 117, 108, 100, 32, 110, 111, 116, 32, 100, 101, 116, 101, 99, 116, 32, 109, 112, 52,
              115, 118, 103, 32, 102, 111, 114, 109, 97, 116>> []
         text = "Failed to extract data from SVG" ->
             <<70, 97, 105, 108, 101, 100, 32, 116, 111, 32, 101, 120, 116, 114, 97, 99, 116, 32, 100, 97,
              116, 97, 32, 102, 114, 111, 109, 32, 83, 86, 71>> []
         text = "Size mismatch: extracted vs original bytes" ->
             <<83, 105, 122, 101, 32, 109, 105, 115, 109, 97, 116, 99, 104, 58, 32, 101, 120, 116, 114, 97,
              99, 116, 101, 100, 32, 118, 115, 32, 111, 114, 105, 103, 105, 110, 97, 108, 32,
              98, 121, 116, 101, 115>> []
         text = "Checksum mismatch: data corruption detected" ->
             <<67, 104, 101, 99, 107, 115, 117, 109, 32, 109, 105, 115, 109, 97, 116, 99, 104, 58, 32, 100,
              97, 116, 97, 32, 99, 111, 114, 114, 117, 112, 116, 105, 111, 110, 32, 100, 101,
              116, 101, 99, 116, 101, 100>> []
         text = "No original MP4 provided for comparison" ->
             <<78, 111, 32, 111, 114, 105, 103, 105, 110, 97, 108, 32, 77, 80, 52, 32, 112, 114, 111, 118,
              105, 100, 101, 100, 32, 102, 111, 114, 32, 99, 111, 109, 112, 97, 114, 105, 115,
              111, 110>> []
         text = "Integrity validation failed: " ->
             <<73, 110, 116, 101, 103, 114, 105, 116, 121, 32, 118, 97, 108, 105, 100, 97, 116, 105, 111,
              110, 32, 102, 97, 105, 108, 101, 100, 58, 32>>

\* the message says that the encoding is lossy or irreversible
SaysLossy(m) ==
    \/ Contains(Lower(MessageChars(m.text)), <<108, 111, 115, 115, 121>>)
    \/ Contains(Lower(MessageChars(m.text)), <<105, 114, 114, 101, 118, 101, 114, 115, 105, 98, 108, 101>>)

\* C19: when the container carries no signature the report has no
\* format, no successful extraction, no integrity, the one error that the
\* format was not detected, and the file system is as it was: nothing
\* was extracted
C19_StopsWhenUndetected ==
    validated.called /\ validated.file.exists /\ validated.file.readable /\ NoSignature =>
        /\ validated.raised = "None"
        /\ validated.report.format_detected = "None"
        /\ ~validated.report.extraction_successful
        /\ ~validated.report.data_integrity_valid
        /\ validated.report.errors = <<Msg("Could not detect mp4svg format", "", <<>>)>>
        /\ validated.report.extracted_size = 0
        /\ validated.report.extracted_checksum = "None"
        /\ files[svg_path] = validated.file
        /\ \A n \in Names : n # svg_path => ~files[n].exists

\* a document with an MP4 section and no boundary was validated
C19_Witness ==
    /\ validated.called
    /\ validated.file.readable
    /\ NoSignature
    /\ Contains(validated.file.content, StartMarker)
    /\ Contains(validated.file.content, EndMarker)

\* an exception was raised while the container was extracted or the
\* original was read
RaisedInside ==
    \/ CodecOutcome.ret = "DecodingError"
    \/ /\ validated.report.extraction_successful
       /\ original.supplied /\ original.file.exists /\ ~original.file.readable

\* C13: for a container that exists and can be read validate_integrity
\* returns a report and raises nothing; an exception of detection,
\* extraction or comparison leaves an entry in the report's errors
C13_AlwaysReports ==
    validated.called /\ validated.file.exists /\ validated.file.readable =>
        /\ validated.raised = "None"
        /\ RaisedInside => validated.report.errors # <<>>

\* a validation whose comparison could not read the original
C13_Witness ==
    /\ validated.called
    /\ validated.raised = "None"
    /\ validated.report.extraction_successful
    /\ original.supplied /\ original.file.exists /\ ~original.file.readable
    /\ validated.report.errors # <<>>

\* C14: when the converter raises DecodingError the report has no
\* successful extraction, nothing is raised, and an entry of errors
\* carries the DecodingError's own message
C14_PreservesDecodingError ==
    validated.called /\ CodecOutcome.ret = "DecodingError" =>
        /\ validated.raised = "None"
        /\ ~validated.report.extraction_successful
        /\ \E m \in Entries(validated.report.errors) : m.exc = "DecodingError"

C16_PolyglotWithoutOriginal ==
    validated.called /\ validated.file = PolyglotContainer(mp4_data) /\ ~original.supplied =>
        /\ validated.report.extraction_successful
        /\ validated.report.data_integrity_valid
        /\ Msg("No original MP4 provided for comparison", "", <<>>)
               \in Entries(validated.report.warnings)

\* C17: a container detected as vector is reported without integrity,
\* with or without an original, with a note that the encoding is lossy
\* or irreversible; the vector converter's extract returns False and
\* writes nothing
C17_VectorIsOneWay ==
    /\ validated.called /\ validated.report.format_detected = "vector" =>
          /\ ~validated.report.data_integrity_valid
          /\ \E m \in Entries(validated.report.errors) \cup Entries(validated.report.warnings) :
                 SaysLossy(m)
    /\ detected.hybrid = "vector" => detected.hybrid_extracted = Outcome("False", None)

----------------------------------------------------------------------------
(* IntegrityValidator.batch_validate *)

\* ".mp4"
DotMp4 == <<46, 109, 112, 52>>

\* the names a directory's files can have: those of Names, "c.svg.SVG"
\* with its temporary path, and "n.txt"; svg_directory's own name holds
\* no '.svg', so the temporary path of a file lies in the directory
DirNames ==
    Names \cup {<<99, 46, 115, 118, 103, 46, 83, 86, 71>>,
                TempOutput(<<99, 46, 115, 118, 103, 46, 83, 86, 71>>),
                <<110, 46, 116, 120, 116>>}

\* svg_files: the names of the directory that end in '.svg' in any case
Listed(fs) == {n \in DOMAIN fs : fs[n].exists /\ EndsWith(Lower(n), DotSvg)}

\* the orders in which os.listdir can give the names of S
Orderings(S) == {order \in [1..Cardinality(S) -> S] :
                    \A i, j \in 1..Cardinality(S) : order[i] = order[j] => i = j}

\* an entry of individual_results: the report of validate_integrity, or
\* only an errors list when validate_integrity raised
ResultEntry(errors_only, report) == [errors_only |-> errors_only, report |-> report]

\* the original paired with svg_file: original_directory/mp4_name when a
\* directory is given and holds that file
PairedOriginal(directory, svg_file) ==
    LET mp4_name == Replace(svg_file, DotSvg, DotMp4)
    IN IF directory.supplied /\ mp4_name \in DOMAIN directory.entries
          /\ directory.entries[mp4_name].exists
       THEN Original(TRUE, directory.entries[mp4_name])
       ELSE NoOriginal

\* the pass that does not count a file whose validation raised
BatchFile_exception_uncounted(fs, results, directory, svg_file) ==
    LET Entered(original_mp4, outcome) ==
            IF outcome.raised = "None"
            THEN [fs |-> outcome.fs,
                  results |->
                     [results EXCEPT
                         !.individual_results =
                             @ @@ (svg_file :> ResultEntry(FALSE, outcome.report)),
                         !.files_processed = @ + 1,
                         !.files_valid =
                             IF \/ outcome.report.data_integrity_valid
                                \/ /\ ~original_mp4.supplied
                                   /\ outcome.report.extraction_successful
                             THEN @ + 1 ELSE @,
                         !.files_with_errors =
                             IF outcome.report.errors # <<>> THEN @ + 1 ELSE @,
                         !.formats_detected =
                             IF outcome.report.format_detected # "None"
                             THEN [@ EXCEPT ![outcome.report.format_detected] = @ + 1]
                             ELSE @]]
            ELSE [fs |-> outcome.fs,
                  results |->
                     [results EXCEPT
                         !.individual_results = @ @@ (svg_file :>
                             ResultEntry(TRUE, [InitialResult EXCEPT !.errors =
                                 <<Msg("SVG file not found: ", outcome.raised, <<>>)>>]))]]
        Paired(original_mp4) ==
            Entered(original_mp4, validate_integrity(fs, svg_file, original_mp4))
    IN Paired(PairedOriginal(directory, svg_file))

\* one pass of the loop of batch_validate over svg_file: the file system
\* and the results it leaves
BatchFile(fs, results, directory, svg_file) ==
    LET Entered(original_mp4, outcome) ==
            IF outcome.raised = "None"
            THEN [fs |-> outcome.fs,
                  results |->
                     [results EXCEPT
                         !.individual_results =
                             @ @@ (svg_file :> ResultEntry(FALSE, outcome.report)),
                         !.files_processed = @ + 1,
                         !.files_valid =
                             IF \/ outcome.report.data_integrity_valid
                                \/ /\ ~original_mp4.supplied
                                   /\ outcome.report.extraction_successful
                             THEN @ + 1 ELSE @,
                         !.files_with_errors =
                             IF outcome.report.errors # <<>> THEN @ + 1 ELSE @,
                         !.formats_detected =
                             IF outcome.report.format_detected # "None"
                             THEN [@ EXCEPT ![outcome.report.format_detected] = @ + 1]
                             ELSE @]]
            ELSE [fs |-> outcome.fs,
                  results |->
                     [results EXCEPT
                         !.individual_results = @ @@ (svg_file :>
                             ResultEntry(TRUE, [InitialResult EXCEPT !.errors =
                                 <<Msg("SVG file not found: ", outcome.raised, <<>>)>>])),
                         !.files_with_errors = @ + 1]]
        Paired(original_mp4) ==
            Entered(original_mp4, validate_integrity(fs, svg_file, original_mp4))
    IN Paired(PairedOriginal(directory, svg_file))

\* the loop over svg_files[k..]
RECURSIVE BatchLoop(_, _, _, _)
BatchLoop(fs, results, directory, k) ==
    IF k > Len(results.svg_files) THEN [fs |-> fs, results |-> results]
    ELSE LET Continued(step) == BatchLoop(step.fs, step.results, directory, k + 1)
         IN Continued(BatchFile(fs, results, directory, results.svg_files[k]))

\* the recommendations of the summary
Recommendations(results) ==
    (IF results.files_with_errors > 0
     THEN <<Msg("Review files with errors", "", <<results.files_with_errors>>)>>
     ELSE <<>>)
    \o (IF results.files_valid = results.files_processed
        THEN <<Msg("All files passed integrity validation", "", <<>>)>>
        ELSE <<>>)

\* batch_validate(svg_directory, original_directory) on a directory whose
\* listing comes in the order svg_files: the file system and the results
\* it leaves
batch_validate(fs, directory, svg_files) ==
    LET Summarised(looped) ==
            [fs |-> looped.fs,
             results |-> [looped.results EXCEPT
                             !.recommendations = Recommendations(looped.results)]]
    IN Summarised(BatchLoop(fs, InitialBatch(svg_files), directory, 1))

\* the files a directory holds
BatchFiles(mp4) ==
    {PolyglotContainer(mp4),
     Document(<<>>),
     Document(<<Part(Fragments.boundary_comment, NoVideoData, FALSE, FALSE),
                Part(Fragments.broken_mp4_section, NoVideoData, FALSE, FALSE)>>),
     Unreadable}

\* the directories of at most MaxFiles files
Directories(mp4) ==
    {fs \in [DirNames -> BatchFiles(mp4) \cup {Absent}] :
        Cardinality({n \in DirNames : fs[n].exists}) <= MaxFiles}

\* the directories of originals: every paired name holds the same file
OriginalDirectories(mp4) ==
    {NoDirectory}
    \cup {[supplied |-> TRUE,
            entries |-> [n \in {Replace(m, DotSvg, DotMp4) : m \in DirNames} |-> f]] :
            f \in {Absent, DataFile(mp4), DataFile(<<0, 0>>)}}

InitBatch ==
    /\ mp4_data \in ValPayloads
    /\ files \in Directories(mp4_data)
    /\ original_directory \in OriginalDirectories(mp4_data)
    /\ svg_path = <<>>
    /\ original = NoOriginal
    /\ detected = NoDetection
    /\ validated = NotValidated
    /\ batch = NoBatch
    /\ A85Idle
    /\ PolyIdle
    /\ QRIdle
    /\ SvgIdle

\* batch_validate(svg_directory, original_directory)
BatchValidate ==
    /\ ~batch.called
    /\ \E svg_files \in Orderings(Listed(files)) :
          \E outcome \in {batch_validate(files, original_directory, svg_files)} :
             /\ batch' = [called |-> TRUE, before |-> files, results |-> outcome.results]
             /\ files' = outcome.fs
    /\ UNCHANGED <<mp4_data, svg_path, original, detected, validated, original_directory,
                   a85vars, polyvars, qrvars, svgvars>>

NextBatch == BatchValidate

SpecBatch == InitBatch /\ [][NextBatch]_vars

(* Properties of batch_validate *)

\* the entry batch_validate would hold for svg_file had it been the only
\* file validated in the directory as it was at the call
EntryAlone(svg_file) ==
    LET outcome == validate_integrity(batch.before, svg_file,
                                      PairedOriginal(original_directory, svg_file))
    IN IF outcome.raised = "None" THEN ResultEntry(FALSE, outcome.report)
       ELSE ResultEntry(TRUE, [InitialResult EXCEPT !.errors =
                <<Msg("SVG file not found: ", outcome.raised, <<>>)>>])

\* C18: batch_validate returns with exactly one entry for every '.svg'
\* file of the directory, and each entry is what validating that file
\* alone gives: no file's validation changes another file's report
C18_FilesIndependent ==
    batch.called =>
        /\ DOMAIN batch.results.individual_results = Listed(batch.before)
        /\ batch.results.total_files = Cardinality(Listed(batch.before))
        /\ \A svg_file \in Listed(batch.before) :
              batch.results.individual_results[svg_file] = EntryAlone(svg_file)

\* the entry of svg_file counts as valid: lines 297-298
CountedValid(svg_file) ==
    LET entry == batch.results.individual_results[svg_file]
    IN /\ ~entry.errors_only
       /\ \/ entry.report.data_integrity_valid
          \/ /\ ~PairedOriginal(original_directory, svg_file).supplied
             /\ entry.report.extraction_successful

\* the entry of svg_file counts as a file with errors: lines 300-301, 310
CountedWithErrors(svg_file) ==
    batch.results.individual_results[svg_file].report.errors # <<>>

\* C23: after batch_validate total_files is the number of '.svg' files,
\* files_processed <= total_files, files_valid <= files_processed, every
\* file is counted in exactly one of files_valid and files_with_errors, so
\* the two add up to total_files; an empty directory gives all counters 0,
\* and files that all validate without errors give files_processed =
\* files_valid = total_files and files_with_errors = 0
C23_BatchCounters ==
    batch.called =>
        LET results == batch.results
            listed == Listed(batch.before)
        IN /\ results.total_files = Cardinality(listed)
           /\ results.files_processed <= results.total_files
           /\ results.files_valid <= results.files_processed
           /\ \A svg_file \in listed : CountedValid(svg_file) # CountedWithErrors(svg_file)
           /\ results.files_valid = Cardinality({f \in listed : CountedValid(f)})
           /\ results.files_with_errors = Cardinality({f \in listed : CountedWithErrors(f)})
           /\ results.files_valid + results.files_with_errors = results.total_files
           /\ listed = {} =>
                 /\ results.files_processed = 0
                 /\ results.files_valid = 0
                 /\ results.files_with_errors = 0
           /\ (\A svg_file \in listed : ~CountedWithErrors(svg_file)) =>
                 /\ results.files_processed = results.total_files
                 /\ results.files_valid = results.total_files
                 /\ results.files_with_errors = 0

\* C23 witness: a directory of two '.svg' files was validated, one counted
\* valid and one counted with errors
C23_Witness ==
    /\ batch.called
    /\ batch.results.total_files = 2
    /\ batch.results.files_processed = 2
    /\ batch.results.files_valid = 1
    /\ batch.results.files_with_errors = 1

\* C25: validate_integrity and batch_validate leave the container they
\* validate as it was, whatever its name and whatever the outcome of the
\* extraction
C25_ContainerUntouched ==
    /\ validated.called => files[svg_path] = validated.file
    /\ batch.called =>
          \A svg_file \in Listed(batch.before) : files[svg_file] = batch.before[svg_file]


\* C26: the decoder IntegrityValidator extracts with (ascii85.py) returns,
\* for the frame the exported encoder makes of the payload, the bytes the
\* exported decoder returns, the payload; and validating the container the
\* exported converter wrote against its original reports
\* data_integrity_valid = true
C26_ValidatorDecodesExportedFrames ==
    (/\ validated.called
     /\ validated.file = Ascii85Container(mp4_data)
     /\ original = Original(TRUE, DataFile(mp4_data)))
    => /\ LegacyDecodeAscii85(_encode_ascii85(mp4_data)) = _decode_ascii85(_encode_ascii85(mp4_data))
       /\ LegacyDecodeAscii85(_encode_ascii85(mp4_data)) = Bytes(mp4_data)
       /\ ~validated.raised
       /\ validated.report.data_integrity_valid

\* C27: when an original path was passed, data_integrity_valid is true only
\* if the original was read and size_match and checksum_match are both
\* true; a path to a file that does not exist never gives
\* data_integrity_valid = true
C27_ValidOnlyAgainstOriginal ==
    validated.called /\ original.supplied /\ validated.report.data_integrity_valid
    => /\ original.file.exists /\ original.file.readable
       /\ validated.report.size_match
       /\ validated.report.checksum_match

\* C28: in every report returned, data_integrity_valid implies
\* extraction_successful, size_match or checksum_match implies
\* extraction_successful, checksum_match implies size_match, and a report
\* without extraction_successful has data_integrity_valid false and at least
\* one error
C28_ReportConsistent ==
    validated.called /\ validated.raised = "None" =>
        LET report == validated.report
        IN /\ report.data_integrity_valid => report.extraction_successful
           /\ report.size_match \/ report.checksum_match => report.extraction_successful
           /\ report.checksum_match => report.size_match
           /\ ~report.extraction_successful =>
                 ~report.data_integrity_valid /\ report.errors # <<>>

C28_Witness ==
    /\ validated.called /\ validated.raised = "None"
    /\ validated.report.extraction_successful
    /\ validated.report.size_match
    /\ ~validated.report.checksum_match
    /\ ~validated.report.data_integrity_valid

\* C29: the summary recommends 'All files passed integrity validation' only
\* when files_with_errors = 0, and never together with 'Review N files with
\* errors'
C29_AllPassedOnlyWithoutErrors ==
    batch.called =>
        LET results == batch.results
            all_passed == Msg("All files passed integrity validation", "", <<>>)
            review == Msg("Review files with errors", "", <<results.files_with_errors>>)
        IN /\ all_passed \in Entries(results.recommendations) => results.files_with_errors = 0
           /\ ~(all_passed \in Entries(results.recommendations)
                /\ review \in Entries(results.recommendations))

----------------------------------------------------------------------------
(* SVGValidator: validate_svg_file on one instance *)

\* the errors and warnings a helper of the validator appends to
\* self.errors and self.warnings
Found(errors, warnings) == [errors |-> errors, warnings |-> warnings]

\* _check_xml_wellformed(svg_path): lxml parses the file.  libxml_limit
\* says that the document exceeds a limit of libxml2 (a text node too long
\* for it), which xml.etree does not have; a file that cannot be opened
\* raises OSError
_check_xml_wellformed(file, libxml_limit) ==
    IF ~file.readable
    THEN [ok |-> FALSE, errors |-> <<Msg("XML parsing error: ", "OSError", <<>>)>>]
    ELSE IF ~file.tree.well_formed \/ libxml_limit
    THEN [ok |-> FALSE, errors |-> <<Msg("XML syntax error: ", "XMLSyntaxError", <<>>)>>]
    ELSE [ok |-> TRUE, errors |-> <<>>]

\* _parse_svg_safely(svg_path): xml.etree parses the file; root is None
\* after a ParseError
_parse_svg_safely(file) ==
    IF file.tree.well_formed THEN [root |-> TRUE, errors |-> <<>>]
    ELSE [root |-> FALSE, errors |-> <<Msg("SVG parsing error: ", "ParseError", <<>>)>>]

\* _validate_svg_structure(root) on a document whose root is
\* Fragments.root_open: an <svg> element without width, height and viewBox;
\* xml.etree keeps no xmlns attribute on the root
_validate_svg_structure(root) ==
    Found(<<>>, <<Msg("SVG missing width attribute and viewBox", "", <<>>),
                  Msg("SVG missing height attribute and viewBox", "", <<>>),
                  Msg("SVG namespace not properly declared", "", <<>>)>>)

\* _validate_ascii85_format(root); the <video:data> elements of the
\* documents carry encoding="ascii85" and none of originalSize, fps, frames
_validate_ascii85_format(root) ==
    IF ~root.video_data.has_video_data
    THEN Found(<<Msg("ASCII85 format: video:data element not found", "", <<>>)>>, <<>>)
    ELSE Found(IF Strip(root.video_data.text) = <<>>
               THEN <<Msg("ASCII85 format: empty video data", "", <<>>)>>
               ELSE <<>>,
               <<Msg("ASCII85 format: missing originalSize attribute", "", <<>>),
                 Msg("ASCII85 format: missing fps attribute", "", <<>>),
                 Msg("ASCII85 format: missing frames attribute", "", <<>>)>>)

\* _validate_polyglot_format(content)
_validate_polyglot_format(content) ==
    Found((IF ~Contains(content, <<77, 80, 52, 95, 68, 65, 84, 65>>)
           THEN <<Msg("Polyglot format: MP4_DATA markers not found", "", <<>>)>>
           ELSE <<>>)
          \o (IF \/ ~Contains(content, <<60, 33, 45, 45, 77, 80, 52, 95, 68, 65, 84, 65>>)
                 \/ ~Contains(content, <<77, 80, 52, 95, 68, 65, 84, 65, 45, 45, 62>>)
              THEN <<Msg("Polyglot format: malformed MP4_DATA comments", "", <<>>)>>
              ELSE <<>>),
          <<>>)

\* _validate_qrcode_format(root): the elements whose id starts with
\* 'qr-frame-' are those of Fragments.qr_frame_group in the text, which
\* hold no image
_validate_qrcode_format(content) ==
    IF ~Contains(content, Fragments.qr_frame_group)
    THEN Found(<<Msg("QR format: no QR frames found", "", <<>>)>>, <<>>)
    ELSE Found(<<>>, <<Msg("QR frame qr-frame-0: no images found", "", <<>>)>>)

\* _validate_vector_format(root)
_validate_vector_format(root) ==
    Found(<<>>,
          (IF ~root.has_path_d
           THEN <<Msg("Vector format: no path elements found", "", <<>>)>> ELSE <<>>)
          \o (IF ~root.has_set_attribute
              THEN <<Msg("Vector format: no animation elements found", "", <<>>)>> ELSE <<>>))

\* _validate_format_specific(content, root, format_type)
_validate_format_specific(content, root, format_type) ==
    IF format_type = "ascii85" THEN _validate_ascii85_format(root)
    ELSE IF format_type = "polyglot" THEN _validate_polyglot_format(content)
    ELSE IF format_type = "qrcode" THEN _validate_qrcode_format(content)
    ELSE IF format_type = "vector" THEN _validate_vector_format(root)
    ELSE Found(<<>>, <<>>)

\* _generate_recommendations(result) with the warnings self.warnings holds;
\* the files are smaller than 50 MB
_generate_recommendations(is_well_formed, detected_format, warnings) ==
    (IF ~is_well_formed THEN <<Msg("Fix XML syntax errors before use", "", <<>>)>> ELSE <<>>)
    \o (IF detected_format = "None"
        THEN <<Msg("File may not be a valid mp4svg format", "", <<>>)>> ELSE <<>>)
    \o (IF warnings # <<>>
        THEN <<Msg("Review warnings for potential improvements", "", <<>>)>> ELSE <<>>)

\* the result dictionary of validate_svg_file; errors and warnings are
\* references to list objects of the heap
SvgResult(svg_file, file_size, errors, warnings) ==
    [file_path |-> svg_file, file_size |-> file_size, is_valid |-> FALSE,
     is_well_formed |-> FALSE, detected_format |-> "None",
     errors |-> errors, warnings |-> warnings, recommendations |-> <<>>]

\* no result was returned
NoSvgResult == SvgResult(<<>>, 0, 0, 0)

\* validate_svg_file keeping the lists of the call before: self.errors and
\* self.warnings are not replaced by new lists
validate_svg_file_unreset(lists, self, svg_file, file, libxml_limit) ==
    LET Run(hp, me) ==
            LET allocated == hp \o <<<<>>, <<>>>>
                result == SvgResult(svg_file, Len(file.content), Len(hp) + 1, Len(hp) + 2)
                wellformed == _check_xml_wellformed(file, libxml_limit)
                parsed == _parse_svg_safely(file)
                Reported(h, res) == [raised |-> "None", lists |-> h, self |-> me, result |-> res]
                Checked(format_type) ==
                    LET found == IF parsed.root
                                 THEN LET structure == _validate_svg_structure(file.tree)
                                          specific == _validate_format_specific(
                                                          file.content, file.tree, format_type)
                                      IN Found(structure.errors \o specific.errors,
                                               structure.warnings \o specific.warnings)
                                 ELSE Found(<<>>, <<>>)
                        h == [allocated EXCEPT
                                 ![me.errors] = @ \o wellformed.errors \o parsed.errors
                                                  \o found.errors,
                                 ![me.warnings] = @ \o found.warnings]
                    IN Reported(h, [result EXCEPT
                                       !.is_well_formed = wellformed.ok,
                                       !.detected_format = format_type,
                                       !.recommendations =
                                           IF parsed.root
                                           THEN _generate_recommendations(
                                                    wellformed.ok, format_type, h[me.warnings])
                                           ELSE <<>>,
                                       !.errors = me.errors,
                                       !.warnings = me.warnings,
                                       !.is_valid = (h[me.errors] = <<>>)])
            IN IF ~file.exists
               THEN [raised |-> "FileNotFoundError", lists |-> hp, self |-> me,
                     result |-> NoSvgResult]
               ELSE IF ~file.readable
               THEN Reported([allocated EXCEPT
                                 ![me.errors] = @ \o wellformed.errors
                                                  \o <<Msg("Validation failed: ", "OSError", <<>>)>>],
                             [result EXCEPT !.errors = me.errors])
               ELSE Checked(IF parsed.root
                            THEN SvgValidatorDetectFormat(file.content, file.tree)
                            ELSE "None")
    IN Run(lists, self)

\* validate_svg_file(svg_path) on the instance self, with the list objects
\* lists: what it raises, the result it returns, the instance and the list
\* objects it leaves.  The file is UTF-8 text without scripts and images
validate_svg_file(lists, self, svg_file, file, libxml_limit) ==
    LET \* lines 29-80, hp and me being the lists and the instance after
        \* lines 26-27
        Run(hp, me) ==
            LET \* the lists of the result dictionary (lines 39-40)
                allocated == hp \o <<<<>>, <<>>>>
                result == SvgResult(svg_file, Len(file.content), Len(hp) + 1, Len(hp) + 2)
                wellformed == _check_xml_wellformed(file, libxml_limit)
                parsed == _parse_svg_safely(file)
                Reported(h, res) == [raised |-> "None", lists |-> h, self |-> me, result |-> res]
                \* lines 52-74 with the detected format
                Checked(format_type) ==
                    LET found == IF parsed.root
                                 THEN LET structure == _validate_svg_structure(file.tree)
                                          specific == _validate_format_specific(
                                                          file.content, file.tree, format_type)
                                      IN Found(structure.errors \o specific.errors,
                                               structure.warnings \o specific.warnings)
                                 ELSE Found(<<>>, <<>>)
                        h == [allocated EXCEPT
                                 ![me.errors] = @ \o wellformed.errors \o parsed.errors
                                                  \o found.errors,
                                 ![me.warnings] = @ \o found.warnings]
                    IN Reported(h, [result EXCEPT
                                       !.is_well_formed = wellformed.ok,
                                       !.detected_format = format_type,
                                       !.recommendations =
                                           IF parsed.root
                                           THEN _generate_recommendations(
                                                    wellformed.ok, format_type, h[me.warnings])
                                           ELSE <<>>,
                                       !.errors = me.errors,
                                       !.warnings = me.warnings,
                                       !.is_valid = (h[me.errors] = <<>>)])
            IN IF ~file.exists
               THEN [raised |-> "FileNotFoundError", lists |-> hp, self |-> me,
                     result |-> NoSvgResult]
               ELSE IF ~file.readable
               \* lines 76-78: the file cannot be opened by _read_svg_content
               THEN Reported([allocated EXCEPT
                                 ![me.errors] = @ \o wellformed.errors
                                                  \o <<Msg("Validation failed: ", "OSError", <<>>)>>],
                             [result EXCEPT !.errors = me.errors])
               ELSE Checked(IF parsed.root
                            THEN SvgValidatorDetectFormat(file.content, file.tree)
                            ELSE "None")
    IN Run(lists \o <<<<>>, <<>>>>, [errors |-> Len(lists) + 1, warnings |-> Len(lists) + 2])

\* SVGValidator.__init__: the instance with its two empty lists
NewSvgValidator == [lists |-> <<<<>>, <<>>>>, self |-> [errors |-> 1, warnings |-> 2]]

\* the files handed to the SVG validator: the containers the converters
\* write for the payload and, with the empty payload, a file that cannot be
\* read, the documents of one fragment, the empty document, a polyglot
\* document and a vector document
SvgValidatorFiles(mp4) ==
    (IF mp4 = <<>>
     THEN {Document(<<p>>) : p \in Parts}
          \cup {Unreadable, Document(<<>>),
                Document(<<Part(Fragments.boundary_comment, NoVideoData, FALSE, FALSE),
                           Part(Fragments.mp4_section, NoVideoData, FALSE, FALSE)>>),
                Document(<<Part(Fragments.path_element, NoVideoData, TRUE, FALSE),
                           Part(Fragments.set_element, NoVideoData, FALSE, TRUE)>>)}
     ELSE {})
    \cup {Absent, PolyglotContainer(mp4), Ascii85Container(mp4)}

InitSvgValidator ==
    /\ mp4_data \in ValPayloads
    /\ files \in [SvgNames -> SvgValidatorFiles(mp4_data)]
    /\ svg_path = <<>>
    /\ original = NoOriginal
    /\ detected = NoDetection
    /\ validated = NotValidated
    /\ original_directory = NoDirectory
    /\ batch = NoBatch
    /\ heap = NewSvgValidator.lists
    /\ svg_validator = NewSvgValidator.self
    /\ svg_calls = <<>>
    /\ A85Idle
    /\ PolyIdle
    /\ QRIdle

\* validate_svg_file(svg_path) on the instance; the call is recorded with
\* the entries of the result's errors and warnings as they were returned
ValidateSvgFile ==
    /\ Len(svg_calls) < MaxSvgCalls
    /\ \E svg_file \in SvgNames, libxml_limit \in BOOLEAN :
          /\ libxml_limit => files[svg_file].readable /\ files[svg_file].tree.well_formed
          /\ \E outcome \in {validate_svg_file(heap, svg_validator, svg_file, files[svg_file],
                                               libxml_limit)} :
                /\ heap' = outcome.lists
                /\ svg_validator' = outcome.self
                /\ svg_calls' = Append(svg_calls,
                       [svg_file |-> svg_file, libxml_limit |-> libxml_limit,
                        raised |-> outcome.raised, result |-> outcome.result,
                        errors |-> IF outcome.raised = "None"
                                   THEN outcome.lists[outcome.result.errors] ELSE <<>>,
                        warnings |-> IF outcome.raised = "None"
                                     THEN outcome.lists[outcome.result.warnings] ELSE <<>>])
    /\ UNCHANGED <<mp4_data, a85vars, polyvars, qrvars, valvars>>

NextSvgValidator == ValidateSvgFile

SpecSvgValidator == InitSvgValidator /\ [][NextSvgValidator]_vars

(* Properties of validate_svg_file *)

\* C30: in every sequence of validate_svg_file calls on one instance, the
\* errors and warnings of each result returned are those a new instance
\* reports for the same file, nothing of an earlier call among them; the
\* lists of a result returned are as they were when it was returned; and a
\* result with is_valid has no errors and is_well_formed
C30_ReportsAreOwn ==
    \A k \in 1..Len(svg_calls) :
        svg_calls[k].raised = "None" =>
            LET Own(call, alone) ==
                    /\ call.errors = alone.lists[alone.result.errors]
                    /\ call.warnings = alone.lists[alone.result.warnings]
                    /\ heap[call.result.errors] = call.errors
                    /\ heap[call.result.warnings] = call.warnings
                    /\ call.result.is_valid =>
                          call.errors = <<>> /\ call.result.is_well_formed
            IN Own(svg_calls[k],
                   validate_svg_file(NewSvgValidator.lists, NewSvgValidator.self,
                                     svg_calls[k].svg_file, files[svg_calls[k].svg_file],
                                     svg_calls[k].libxml_limit))

\* a result with errors was returned, then a valid one for another file by
\* the same instance
C30_Witness ==
    /\ Len(svg_calls) = 2
    /\ svg_calls[1].raised = "None" /\ svg_calls[1].errors # <<>>
    /\ svg_calls[2].raised = "None" /\ svg_calls[2].result.is_valid
    /\ svg_calls[2].warnings # <<>>
    /\ svg_calls[1].svg_file # svg_calls[2].svg_file
====
